---- MODULE Spec2Model ----
(***************************************************************************)
(* A model of ryl, a YAML linter: the configuration loader (config.rs),    *)
(* configuration discovery (config.rs) and the per-file lint orchestrator  *)
(* (lint.rs).  Rust functions are operators that keep the source's names;  *)
(* each specification draws the arguments and the environment of one       *)
(* group of operations in Init and applies the operations in its actions.  *)
(***************************************************************************)
EXTENDS Integers, Sequences, FiniteSets, TLC

VARIABLES
    pc,     \* position of the modelled call: "start" before it, "done" after
    call,   \* the arguments and the environment (Env) the call is made with
    ret     \* what the call returned (<<>> before it has returned)

vars == <<pc, call, ret>>

(***************************************************************************)
(* Option<T>: None is the empty sequence, Some(x) the one-element one.     *)
(***************************************************************************)
None == <<>>
Some(x) == <<x>>
IsSome(o) == o # <<>>
Unwrap(o) == o[1]

(***************************************************************************)
(* YAML values (saphyr::YamlOwned).  One record shape for every value:     *)
(*   "str"  a string scalar (str), "int" a non-string scalar (str),        *)
(*   "seq"  a sequence (items), "map" a mapping in insertion order         *)
(*   (keys[i] maps to items[i]), "invalid" text the YAML parser rejects.   *)
(***************************************************************************)
StrN(s) == [tag |-> "str", str |-> s, keys |-> <<>>, items |-> <<>>]
IntN(s) == [tag |-> "int", str |-> s, keys |-> <<>>, items |-> <<>>]
SeqN(xs) == [tag |-> "seq", str |-> "", keys |-> <<>>, items |-> xs]
MapN(ks, vs) == [tag |-> "map", str |-> "", keys |-> ks, items |-> vs]
InvalidYaml == [tag |-> "invalid", str |-> "", keys |-> <<>>, items |-> <<>>]
\* A text file of pattern lines; read as YAML it is a scalar, not a mapping.
TextN(ls) ==
    [tag |-> "text", str |-> "", keys |-> <<>>, items |-> [i \in 1..Len(ls) |-> StrN(ls[i])]]

as_str(node) == IF node.tag = "str" THEN Some(node.str) ELSE None
is_mapping(node) == node.tag = "map"
is_sequence(node) == node.tag = "seq"

\* Index of string key `key` in a mapping node, 0 when absent.
KeyIndex(node, key) ==
    IF \E i \in 1..Len(node.keys) : node.keys[i] = StrN(key)
    THEN CHOOSE i \in 1..Len(node.keys) : node.keys[i] = StrN(key)
    ELSE 0

as_mapping_get(node, key) ==
    IF is_mapping(node) /\ KeyIndex(node, key) # 0
    THEN Some(node.items[KeyIndex(node, key)])
    ELSE None

(***************************************************************************)
(* Paths (std::path).  A path is its list of components and whether it     *)
(* has a root; "." is kept as a leading component, as Rust does.           *)
(***************************************************************************)
AbsPath(cs) == [abs |-> TRUE, comps |-> cs]
RelPath(cs) == [abs |-> FALSE, comps |-> cs]
is_absolute(p) == p.abs
\* Path::join; a "." after the first component is no component.
join(base, p) ==
    IF p.abs THEN p
    ELSE [abs |-> base.abs,
          comps |-> base.comps \o (IF base.abs \/ base.comps # <<>>
                                   THEN SelectSeq(p.comps, LAMBDA c : c # ".")
                                   ELSE p.comps)]
parent(p) ==
    IF p.comps = <<>> THEN None
    ELSE Some([abs |-> p.abs, comps |-> SubSeq(p.comps, 1, Len(p.comps) - 1)])

(***************************************************************************)
(* The environment (trait Env): current_dir, config_dir, read_to_string,   *)
(* path_exists, env_var.  An environment is a record                       *)
(*   [cwd, config_dir, files, exists, vars, dirs, home_dir]                *)
(* as the tests' StubEnv/FakeEnv: files maps a path to its parsed text,    *)
(* exists are further existing paths, vars maps a variable to Option;      *)
(* dirs and home_dir are what Path::is_dir and dirs::home_dir answer.      *)
(***************************************************************************)
current_dir(envx) == envx.cwd
config_dir(envx) == envx.config_dir
read_to_string(envx, p) ==
    IF p \in DOMAIN envx.files
    THEN [ok |-> TRUE, text |-> envx.files[p]]
    ELSE [ok |-> FALSE, text |-> InvalidYaml]
path_exists(envx, p) == p \in DOMAIN envx.files \/ p \in envx.exists
env_var(envx, key) == IF key \in DOMAIN envx.vars THEN envx.vars[key] ELSE None

(***************************************************************************)
(* Strings are atoms in the model; the string functions the loader uses    *)
(* are tables over the strings that occur in the inputs.                   *)
(***************************************************************************)
\* PathBuf::from(&str)
PathBuf_from(s) ==
    CASE s = "" -> RelPath(<<>>)
      [] s = "." -> RelPath(<<".">>)
      [] s = "a.yml" -> RelPath(<<"a.yml">>)
      [] s = "b.yml" -> RelPath(<<"b.yml">>)
      [] s = "missing.yml" -> RelPath(<<"missing.yml">>)
      [] s = "/w/a.yml" -> AbsPath(<<"w", "a.yml">>)
      [] s = "/w/b.yml" -> AbsPath(<<"w", "b.yml">>)
      [] s = "/e/env.yml" -> AbsPath(<<"e", "env.yml">>)
      [] s = "/h" -> AbsPath(<<"h">>)
      [] s = "/w" -> AbsPath(<<"w">>)
      [] s = "h" -> RelPath(<<"h">>)
      [] OTHER -> RelPath(<<s>>)

\* str::lines, each line with a trailing '\r' already cut
str_lines(s) ==
    CASE s = "docs/**\n\nbuild/\n" -> <<"docs/**", "", "build/">>
      [] s = "  \nvendor/\r\n" -> <<"  ", "vendor/">>
      [] s = "" -> <<>>
      [] OTHER -> <<s>>

\* str::lines of a file's text; only pattern files are read by their lines.
text_lines(text) ==
    IF text.tag = "text" THEN [i \in 1..Len(text.items) |-> text.items[i].str] ELSE <<>>

\* str::trim_end_matches(['\r'])
trim_end_cr(s) == IF s = "vendor/\r" THEN "vendor/" ELSE s

\* Whether GitignoreBuilder::add_line and Glob::new accept the pattern.
is_valid_glob(s) == s \notin {"[", "a[", "[z-a]"}

\* str::trim().is_empty()
is_blank(s) == s \in {"", " ", "  "}

(***************************************************************************)
(* conf::builtin and the presets (src/conf/mod.rs).                        *)
(***************************************************************************)
DEFAULT ==
    MapN(<<StrN("rules")>>,
         <<MapN(<<StrN("trailing-spaces"), StrN("document-end")>>,
                <<StrN("enable"), StrN("enable")>>)>>)
RELAXED ==
    MapN(<<StrN("rules")>>,
         <<MapN(<<StrN("trailing-spaces")>>, <<StrN("disable")>>)>>)
EMPTY == MapN(<<StrN("rules")>>, <<MapN(<<>>, <<>>)>>)

builtin(name) ==
    CASE name = "default" -> Some(DEFAULT)
      [] name = "relaxed" -> Some(RELAXED)
      [] name = "empty" -> Some(EMPTY)
      [] OTHER -> None

(***************************************************************************)
(* YamlLintConfig (config.rs).  rules is the BTreeMap: a function from the *)
(* names present; a BTreeMap iterates in key order, which BTreeKeys gives  *)
(* from the byte order of the rule names of the model.                     *)
(***************************************************************************)
EmptyMap == [x \in {} |-> x]

DEFAULT_YAML_FILE_PATTERNS == <<"*.yaml", "*.yml", ".yamllint">>

YamlLintConfig_default ==
    [ignore_patterns |-> <<>>,
     ignore_from_files |-> <<>>,
     rule_names |-> <<>>,
     rules |-> EmptyMap,
     ignore_matcher |-> None,
     yaml_file_patterns |-> DEFAULT_YAML_FILE_PATTERNS,
     yaml_matcher |-> None,
     locale |-> None]

\* The rule names of the model in String's (byte) order.
NameOrder ==
    <<"brackets", "comments", "comments-indentation", "custom-rule",
      "document-end", "key-ordering", "line-length",
      "new-line-at-end-of-file", "new-lines", "octal-values",
      "quoted-strings", "trailing-spaces", "truthy">>

IsName(m, k) == k \in DOMAIN m
BTreeKeys(m) == SelectSeq(NameOrder, LAMBDA k : k \in DOMAIN m)
BTreeInsert(m, k, v) == [x \in (DOMAIN m) \cup {k} |-> IF x = k THEN v ELSE m[x]]

Contains(seq, x) == \E i \in 1..Len(seq) : seq[i] = x

\* Result<YamlLintConfig, String>
Ok(cfg) == [ok |-> TRUE, cfg |-> cfg, err |-> ""]
Err(e) == [ok |-> FALSE, cfg |-> YamlLintConfig_default, err |-> e]
\* Result<Vec<String>, String>
OkVec(v) == [ok |-> TRUE, val |-> v, err |-> ""]
ErrVec(e) == [ok |-> FALSE, val |-> <<>>, err |-> e]
\* The `?` operator on a Result<YamlLintConfig, String>.
AndThen(r, F(_)) == IF r.ok THEN F(r.cfg) ELSE r

(***************************************************************************)
(* The loader (config.rs).                                                 *)
(***************************************************************************)
\* Frames the call stack holds: a recursion deeper than this overflows the
\* stack and the process is aborted.
MaxStackDepth == 4
StackOverflow == Err("stack overflow")

RECURSIVE patterns_from_lines(_, _)
patterns_from_lines(lines, i) ==
    IF i > Len(lines) THEN <<>>
    ELSE IF is_blank(lines[i]) THEN patterns_from_lines(lines, i + 1)
    ELSE <<lines[i]>> \o patterns_from_lines(lines, i + 1)

patterns_from_scalar(value) == patterns_from_lines(str_lines(value), 1)

RECURSIVE load_ignore_patterns_seq(_, _)
load_ignore_patterns_seq(seq, i) ==
    IF i > Len(seq) THEN OkVec(<<>>)
    ELSE IF ~IsSome(as_str(seq[i]))
    THEN ErrVec("invalid config: ignore should contain file patterns")
    ELSE LET rest == load_ignore_patterns_seq(seq, i + 1)
         IN IF rest.ok
            THEN OkVec(patterns_from_scalar(Unwrap(as_str(seq[i]))) \o rest.val)
            ELSE rest

load_ignore_patterns(node) ==
    IF is_sequence(node) THEN load_ignore_patterns_seq(node.items, 1)
    ELSE IF IsSome(as_str(node)) THEN OkVec(patterns_from_scalar(Unwrap(as_str(node))))
    ELSE ErrVec("invalid config: ignore should contain file patterns")

load_ignore_from_files(node) ==
    IF is_sequence(node)
    THEN IF \E i \in 1..Len(node.items) : ~IsSome(as_str(node.items[i]))
         THEN ErrVec("invalid config: ignore-from-file should contain filename(s), either as a list or string")
         ELSE OkVec([i \in 1..Len(node.items) |-> Unwrap(as_str(node.items[i]))])
    ELSE IF IsSome(as_str(node)) THEN OkVec(<<Unwrap(as_str(node))>>)
    ELSE ErrVec("invalid config: ignore-from-file should contain filename(s), either as a list or string")

\* Mutant: the current directory is tried before the base directory.
resolve_extend_path_cwd_first(entry, envx, base_dir) ==
    IF is_absolute(PathBuf_from(entry)) THEN PathBuf_from(entry)
    ELSE IF path_exists(envx, join(current_dir(envx), PathBuf_from(entry)))
    THEN join(current_dir(envx), PathBuf_from(entry))
    ELSE IF IsSome(base_dir) /\ path_exists(envx, join(Unwrap(base_dir), PathBuf_from(entry)))
    THEN join(Unwrap(base_dir), PathBuf_from(entry))
    ELSE PathBuf_from(entry)

resolve_extend_path(entry, envx, base_dir) ==
    LET candidate == PathBuf_from(entry)
        fallback == join(current_dir(envx), candidate)
    IN IF is_absolute(candidate) THEN candidate
       ELSE IF IsSome(base_dir) /\ path_exists(envx, join(Unwrap(base_dir), candidate))
       THEN join(Unwrap(base_dir), candidate)
       ELSE IF path_exists(envx, fallback) THEN fallback
       ELSE candidate

RECURSIVE deep_merge_yaml_owned(_, _), deep_merge_entries(_, _, _)
\* The loop over src_map of deep_merge_yaml_owned, from entry i on.
deep_merge_entries(dst, src, i) ==
    IF i > Len(src.keys) THEN dst
    ELSE IF ~IsSome(as_str(src.keys[i])) THEN deep_merge_entries(dst, src, i + 1)
    ELSE LET key == Unwrap(as_str(src.keys[i]))
             j == KeyIndex(dst, key)
         IN IF j # 0
            THEN deep_merge_entries(
                     [dst EXCEPT !.items[j] = deep_merge_yaml_owned(@, src.items[i])],
                     src, i + 1)
            ELSE deep_merge_entries(
                     [dst EXCEPT !.keys = Append(@, StrN(key)),
                                 !.items = Append(@, src.items[i])],
                     src, i + 1)

\* Mutant: the source replaces the destination also when both are mappings.
deep_merge_replaces(dst, src) == src

deep_merge_yaml_owned(dst, src) ==
    IF is_mapping(dst) /\ is_mapping(src)
    THEN deep_merge_entries(dst, src, 1)
    ELSE src

\* Mutant: the name is pushed without the check that it was seen.
merge_rule_pushes_seen(cfg, name, val) ==
    [cfg EXCEPT
        !.rules = IF IsName(cfg.rules, name)
                  THEN [@ EXCEPT ![name] = deep_merge_yaml_owned(@, val)]
                  ELSE BTreeInsert(@, name, val),
        !.rule_names = Append(@, name)]

\* One rule (name, val) merged into the rules map and the name list: the body
\* of the loops of merge_from and of from_yaml_str_with_env.
merge_rule(cfg, name, val) ==
    [cfg EXCEPT
        !.rules = IF IsName(cfg.rules, name)
                  THEN [@ EXCEPT ![name] = deep_merge_yaml_owned(@, val)]
                  ELSE BTreeInsert(@, name, val),
        !.rule_names = IF Contains(@, name) THEN @ ELSE Append(@, name)]

RECURSIVE merge_from_rules(_, _, _, _)
merge_from_rules(self, other_rules, names, i) ==
    IF i > Len(names) THEN self
    ELSE merge_from_rules(merge_rule(self, names[i], other_rules[names[i]]),
                          other_rules, names, i + 1)

\* merge_from: other's yaml_file_patterns taken when the list is not empty.
merge_from_yaml_files(self, other) ==
    IF other.yaml_file_patterns # <<>>
    THEN [self EXCEPT !.yaml_file_patterns = other.yaml_file_patterns]
    ELSE self

\* Mutant: the extended config's locale overwrites the one already taken.
merge_from_last_locale(self, other) ==
    IF other.locale # None THEN [self EXCEPT !.locale = other.locale] ELSE self

\* merge_from: other's locale taken when self has none.
merge_from_locale(self, other) ==
    IF self.locale = None THEN [self EXCEPT !.locale = other.locale] ELSE self

merge_from(self, other) ==
    merge_from_locale(
        merge_from_yaml_files(
            merge_from_rules(
                [self EXCEPT !.ignore_patterns = @ \o other.ignore_patterns,
                             !.ignore_from_files = @ \o other.ignore_from_files],
                other.rules, BTreeKeys(other.rules), 1),
            other),
        other)

\* from_yaml_str_with_env, the current document's keys, one key at a time.
document_ignore(cfg, doc) ==
    LET node == as_mapping_get(doc, "ignore")
        patterns == load_ignore_patterns(Unwrap(node))
    IN IF ~IsSome(node) THEN Ok(cfg)
       ELSE IF ~patterns.ok THEN Err(patterns.err)
       ELSE Ok([cfg EXCEPT !.ignore_patterns = @ \o patterns.val])

document_ignore_from_file(cfg, doc) ==
    LET node == as_mapping_get(doc, "ignore-from-file")
        files == load_ignore_from_files(Unwrap(node))
    IN IF ~IsSome(node) THEN Ok(cfg)
       ELSE IF ~files.ok THEN Err(files.err)
       ELSE Ok([cfg EXCEPT !.ignore_from_files = files.val])

document_yaml_files(cfg, doc) ==
    LET yf == as_mapping_get(doc, "yaml-files")
        seq == Unwrap(yf).items
    IN IF ~IsSome(yf) THEN Ok(cfg)
       ELSE IF ~is_sequence(Unwrap(yf))
               \/ \E i \in 1..Len(seq) : ~IsSome(as_str(seq[i]))
       THEN Err("invalid config: yaml-files should be a list of file patterns")
       ELSE Ok([cfg EXCEPT !.yaml_file_patterns =
                    [i \in 1..Len(seq) |-> Unwrap(as_str(seq[i]))]])

document_locale(cfg, doc) ==
    LET locale == as_mapping_get(doc, "locale")
    IN IF ~IsSome(locale) THEN Ok(cfg)
       ELSE IF ~IsSome(as_str(Unwrap(locale)))
       THEN Err("invalid config: locale should be a string")
       ELSE Ok([cfg EXCEPT !.locale = Some(Unwrap(as_str(Unwrap(locale))))])

RECURSIVE document_rules_loop(_, _, _)
document_rules_loop(cfg, map, i) ==
    IF i > Len(map.keys) THEN cfg
    ELSE IF ~IsSome(as_str(map.keys[i])) THEN document_rules_loop(cfg, map, i + 1)
    ELSE document_rules_loop(
             merge_rule(cfg, Unwrap(as_str(map.keys[i])), map.items[i]),
             map, i + 1)

document_rules(cfg, doc) ==
    LET rules == as_mapping_get(doc, "rules")
    IN IF IsSome(rules) /\ is_mapping(Unwrap(rules))
       THEN Ok(document_rules_loop(cfg, Unwrap(rules), 1))
       ELSE Ok(cfg)

current_document_overrides(cfg, doc) ==
    IF IsSome(as_mapping_get(doc, "ignore"))
       /\ IsSome(as_mapping_get(doc, "ignore-from-file"))
    THEN Err("invalid config: ignore and ignore-from-file keys cannot be used together")
    ELSE AndThen(AndThen(AndThen(AndThen(
             document_ignore(cfg, doc),
             LAMBDA c : document_ignore_from_file(c, doc)),
             LAMBDA c : document_yaml_files(c, doc)),
             LAMBDA c : document_locale(c, doc)),
             LAMBDA c : document_rules(c, doc))

RECURSIVE from_yaml_str_with_env(_, _, _, _), apply_extends(_, _, _, _, _),
          apply_extends_seq(_, _, _, _, _, _), extend_from_entry(_, _, _, _, _)

\* `let base = ..?; self.merge_from(base)`; a preset fails to load only when
\* the stack is exhausted.
merge_base(self, base) == IF base.ok THEN Ok(merge_from(self, base.cfg)) ELSE base

\* Where the extended file's own extends are resolved from.
parent_dir_of(resolved, envx, base_dir) ==
    IF IsSome(parent(resolved)) THEN Unwrap(parent(resolved))
    ELSE IF IsSome(base_dir) THEN Unwrap(base_dir)
    ELSE current_dir(envx)

\* envx and base_dir are Options; depth counts the frames of the recursion.
extend_from_entry(self, entry, envx, base_dir, depth) ==
    IF IsSome(builtin(entry))
    THEN merge_base(self, from_yaml_str_with_env(Unwrap(builtin(entry)), None, None,
                                                  depth + 1))
    ELSE IF ~IsSome(envx)
    THEN Err("invalid config: extends requires filesystem access for resolution")
    ELSE LET resolved == resolve_extend_path(entry, Unwrap(envx), base_dir)
             data == read_to_string(Unwrap(envx), resolved)
         IN IF ~data.ok THEN Err("failed to read extended config")
            ELSE merge_base(self,
                            from_yaml_str_with_env(
                                data.text, envx,
                                Some(parent_dir_of(resolved, Unwrap(envx), base_dir)),
                                depth + 1))

apply_extends_seq(self, seq, i, envx, base_dir, depth) ==
    IF i > Len(seq) THEN Ok(self)
    ELSE IF ~IsSome(as_str(seq[i]))
    THEN apply_extends_seq(self, seq, i + 1, envx, base_dir, depth)
    ELSE AndThen(extend_from_entry(self, Unwrap(as_str(seq[i])), envx, base_dir, depth),
                 LAMBDA c : apply_extends_seq(c, seq, i + 1, envx, base_dir, depth))

apply_extends(self, node, envx, base_dir, depth) ==
    IF is_sequence(node)
    THEN apply_extends_seq(self, node.items, 1, envx, base_dir, depth)
    ELSE IF IsSome(as_str(node))
    THEN extend_from_entry(self, Unwrap(as_str(node)), envx, base_dir, depth)
    ELSE Ok(self)

from_yaml_str_with_env(s, envx, base_dir, depth) ==
    IF depth > MaxStackDepth THEN StackOverflow
    ELSE IF s.tag = "invalid" THEN Err("failed to parse config data")
    ELSE IF ~is_mapping(s) THEN Err("invalid config: not a mapping")
    ELSE LET extends == as_mapping_get(s, "extends")
             extended == IF IsSome(extends)
                         THEN apply_extends(YamlLintConfig_default, Unwrap(extends),
                                            envx, base_dir, depth)
                         ELSE Ok(YamlLintConfig_default)
         IN AndThen(extended, LAMBDA c : current_document_overrides(c, s))

from_yaml_str(s) == from_yaml_str_with_env(s, None, None, 1)

(***************************************************************************)
(* Inputs of the loader: a root document and the files its extends chain   *)
(* can reach, /w/a.yml and /w/b.yml, under cwd = base_dir = /w.            *)
(***************************************************************************)
\* A mapping document from its <<key, value>> pairs.
Doc(pairs) ==
    MapN([i \in 1..Len(pairs) |-> StrN(pairs[i][1])],
         [i \in 1..Len(pairs) |-> pairs[i][2]])
StrSeq(ss) == SeqN([i \in 1..Len(ss) |-> StrN(ss[i])])

W == AbsPath(<<"w">>)
FileA == AbsPath(<<"w", "a.yml">>)
FileB == AbsPath(<<"w", "b.yml">>)

\* The `extends` key of the root document and of the two files.
ExtendsRoot ==
    {<<>>,
     <<<<"extends", StrN("a.yml")>>>>,
     <<<<"extends", StrN("default")>>>>,
     <<<<"extends", StrN("relaxed")>>>>,
     <<<<"extends", StrN("missing.yml")>>>>,
     <<<<"extends", IntN("123")>>>>,
     <<<<"extends", StrSeq(<<"a.yml", "b.yml">>)>>>>,
     <<<<"extends", StrSeq(<<"b.yml", "a.yml">>)>>>>,
     <<<<"extends", StrSeq(<<"a.yml", "a.yml">>)>>>>,
     <<<<"extends", StrSeq(<<"default", "a.yml">>)>>>>,
     <<<<"extends", SeqN(<<StrN("a.yml"), IntN("1"), StrN("empty")>>)>>>>}
ExtendsA ==
    {<<>>,
     <<<<"extends", StrN("b.yml")>>>>,
     <<<<"extends", StrN("default")>>>>,
     <<<<"extends", StrN("a.yml")>>>>}
ExtendsB ==
    {<<>>,
     <<<<"extends", StrN("/w/a.yml")>>>>}

\* The other keys, one aspect of the configuration at a time, and one body
\* that sets every key.
RulesRoot ==
    {<<>>,
     <<<<"rules", Doc(<<<<"trailing-spaces", StrN("disable")>>>>)>>>>,
     <<<<"rules", Doc(<<<<"document-end", Doc(<<<<"level", StrN("warning")>>>>)>>,
                        <<"comments", Doc(<<<<"min-spaces-from-content", IntN("1")>>,
                                            <<"level", StrN("error")>>>>)>>,
                        <<"trailing-spaces", StrN("disable")>>>>)>>>>,
     <<<<"rules", Doc(<<<<"truthy", StrN("disable")>>,
                        <<"brackets", StrN("enable")>>,
                        <<"comments", StrN("enable")>>>>)>>>>}
RulesA ==
    {<<>>,
     <<<<"rules", Doc(<<<<"truthy", StrN("enable")>>,
                        <<"comments", Doc(<<<<"level", StrN("warning")>>,
                                            <<"require-starting-space", StrN("false")>>>>)>>>>)>>>>,
     <<<<"rules", Doc(<<<<"document-end", Doc(<<<<"present", StrN("false")>>>>)>>,
                        <<"trailing-spaces", StrN("enable")>>>>)>>>>}
RulesB ==
    {<<>>,
     <<<<"rules", MapN(<<StrN("new-lines"), IntN("7"), StrN("comments")>>,
                       <<Doc(<<<<"type", StrN("dos")>>>>), StrN("enable"),
                         MapN(<<StrN("level"), IntN("2")>>,
                              <<StrN("error"), StrN("x")>>)>>)>>>>}
YamlRoot ==
    {<<>>, <<<<"yaml-files", StrSeq(<<"*.root">>)>>>>, <<<<"yaml-files", StrSeq(<<>>)>>>>}
YamlA ==
    {<<>>, <<<<"yaml-files", StrSeq(<<"*.a", "*.aa">>)>>>>, <<<<"yaml-files", StrSeq(<<>>)>>>>}
YamlB ==
    {<<>>, <<<<"yaml-files", StrSeq(<<"*.b">>)>>>>, <<<<"yaml-files", IntN("5")>>>>}
LocaleRoot == {<<>>, <<<<"locale", StrN("fr_FR.UTF-8")>>>>, <<<<"locale", StrN("")>>>>}
LocaleA == {<<>>, <<<<"locale", StrN("en_US.UTF-8")>>>>, <<<<"locale", StrN("")>>>>}
LocaleB == {<<>>, <<<<"locale", StrN("de_DE.UTF-8")>>>>, <<<<"locale", SeqN(<<IntN("1")>>)>>>>}
IgnoreRoot ==
    {<<>>,
     <<<<"ignore", StrSeq(<<"root/**">>)>>>>,
     <<<<"ignore-from-file", StrN(".rootignore")>>>>}
IgnoreA ==
    {<<>>,
     <<<<"ignore", StrN("docs/**\n\nbuild/\n")>>>>,
     <<<<"ignore-from-file", StrSeq(<<".aignore", ".gitignore">>)>>>>}
IgnoreB ==
    {<<>>,
     <<<<"ignore", StrSeq(<<"b/**">>)>>>>,
     <<<<"ignore", StrSeq(<<"x">>)>>, <<"ignore-from-file", StrN(".bignore")>>>>}

FullRoot ==
    <<<<"locale", StrN("fr_FR.UTF-8")>>, <<"ignore", StrSeq(<<"root/**">>)>>,
      <<"rules", Doc(<<<<"comments", Doc(<<<<"level", StrN("error")>>>>)>>>>)>>>>
FullA ==
    <<<<"locale", StrN("en_US.UTF-8")>>, <<"yaml-files", StrSeq(<<"*.a", "*.aa">>)>>,
      <<"ignore", StrSeq(<<"a/**">>)>>,
      <<"rules", Doc(<<<<"truthy", StrN("enable")>>,
                       <<"comments", Doc(<<<<"level", StrN("warning")>>>>)>>>>)>>>>
FullB ==
    <<<<"ignore-from-file", StrN(".bignore")>>,
      <<"rules", Doc(<<<<"new-lines", Doc(<<<<"type", StrN("dos")>>>>)>>>>)>>>>

Aspects == {"rules", "yaml-files", "locale", "ignore", "full"}
BodiesRoot(a) ==
    CASE a = "rules" -> RulesRoot [] a = "yaml-files" -> YamlRoot
      [] a = "locale" -> LocaleRoot [] a = "ignore" -> IgnoreRoot
      [] OTHER -> {FullRoot}
BodiesA(a) ==
    CASE a = "rules" -> RulesA [] a = "yaml-files" -> YamlA
      [] a = "locale" -> LocaleA [] a = "ignore" -> IgnoreA
      [] OTHER -> {FullA}
BodiesB(a) ==
    CASE a = "rules" -> RulesB [] a = "yaml-files" -> YamlB
      [] a = "locale" -> LocaleB [] a = "ignore" -> IgnoreB
      [] OTHER -> {FullB}

RootDocs(a) == {Doc(e \o b) : e \in ExtendsRoot, b \in BodiesRoot(a)}
               \cup {InvalidYaml, SeqN(<<IntN("1")>>)}
ADocs(a) == {Doc(e \o b) : e \in ExtendsA, b \in BodiesA(a)} \cup {SeqN(<<StrN("x")>>)}
BDocs(a) == {Doc(e \o b) : e \in ExtendsB, b \in BodiesB(a)}

\* The file systems: each file is absent or holds one of its documents.
LoadFiles(a) ==
    {EmptyMap}
    \cup {(FileA :> da) : da \in ADocs(a)}
    \cup {(FileB :> db) : db \in BDocs(a)}
    \cup {(FileA :> da) @@ (FileB :> db) : da \in ADocs(a), db \in BDocs(a)}

LoadEnv(files) ==
    [cwd |-> W, config_dir |-> None, files |-> files, exists |-> {},
     vars |-> EmptyMap, dirs |-> {W}, home_dir |-> None]

\* from_yaml_str_with_env(doc, Some(env), Some(/w)), and from_yaml_str(doc),
\* which is from_yaml_str_with_env(doc, None, None).
LoadCalls ==
    {[op |-> "from_yaml_str_with_env", doc |-> d,
      envx |-> Some(LoadEnv(f)), base_dir |-> Some(W)] :
        <<d, f>> \in UNION {RootDocs(a) \X LoadFiles(a) : a \in Aspects}}
    \cup
    {[op |-> "from_yaml_str", doc |-> d, envx |-> None, base_dir |-> None] :
        d \in UNION {RootDocs(a) : a \in Aspects}}

InitLoad == pc = "start" /\ call \in LoadCalls /\ ret = <<>>

\* The call returns: Ok(cfg) or Err(message).
Load ==
    /\ pc = "start"
    /\ call.op \in {"from_yaml_str_with_env", "from_yaml_str"}
    /\ ret' = from_yaml_str_with_env(call.doc, call.envx, call.base_dir, 1)
    /\ pc' = "done"
    /\ UNCHANGED call

NextLoad == Load
SpecLoad == InitLoad /\ [][NextLoad]_vars

(***************************************************************************)
(* rule_level (spec 4.1, "Determination of rule level"): None for a rule   *)
(* that is absent or set to "disable", Warning for a mapping with          *)
(* level: warning, Error otherwise.                                        *)
(***************************************************************************)
rule_level(cfg, id) ==
    IF ~IsName(cfg.rules, id) THEN None
    ELSE IF cfg.rules[id] = StrN("disable") THEN None
    ELSE IF as_mapping_get(cfg.rules[id], "level") = Some(StrN("warning"))
    THEN Some("Warning")
    ELSE Some("Error")

(***************************************************************************)
(* What the claims about the loader speak of: the documents of an extends  *)
(* chain and the order in which they are applied.                          *)
(***************************************************************************)
Loaded == pc = "done" /\ call.op \in {"from_yaml_str_with_env", "from_yaml_str"}
LoadedOk == Loaded /\ ret.ok

\* The string entries of a document's `extends`, in the order listed.
ExtendsEntries(doc) ==
    LET e == as_mapping_get(doc, "extends")
    IN IF ~IsSome(e) THEN <<>>
       ELSE IF is_sequence(Unwrap(e))
       THEN LET strs == SelectSeq(Unwrap(e).items, LAMBDA n : n.tag = "str")
            IN [i \in 1..Len(strs) |-> strs[i].str]
       ELSE IF Unwrap(e).tag = "str" THEN <<Unwrap(e).str>>
       ELSE <<>>

\* The document an extends entry names (read only after an Ok load).
EntryDoc(entry) ==
    IF IsSome(builtin(entry)) THEN Unwrap(builtin(entry))
    ELSE Unwrap(call.envx).files[
             resolve_extend_path(entry, Unwrap(call.envx), call.base_dir)]

RECURSIVE ApplicationOrder(_), ApplicationOrderOf(_, _), RootDown(_), RootDownOf(_, _)
\* Each extends entry's documents in the listed order, then the document itself.
ApplicationOrder(doc) == ApplicationOrderOf(ExtendsEntries(doc), 1) \o <<doc>>
ApplicationOrderOf(entries, i) ==
    IF i > Len(entries) THEN <<>>
    ELSE ApplicationOrder(EntryDoc(entries[i])) \o ApplicationOrderOf(entries, i + 1)
\* The document itself, then each extends entry's documents in the listed order.
RootDown(doc) == <<doc>> \o RootDownOf(ExtendsEntries(doc), 1)
RootDownOf(entries, i) ==
    IF i > Len(entries) THEN <<>>
    ELSE RootDown(EntryDoc(entries[i])) \o RootDownOf(entries, i + 1)

\* The rule ids a document declares, in the order it declares them.
DeclaredRules(doc) ==
    LET r == as_mapping_get(doc, "rules")
    IN IF IsSome(r) /\ is_mapping(Unwrap(r))
       THEN LET ks == SelectSeq(Unwrap(r).keys, LAMBDA n : n.tag = "str")
            IN [i \in 1..Len(ks) |-> ks[i].str]
       ELSE <<>>

RECURSIVE FirstSeen(_, _, _)
\* The ids of docs[i..] in first-seen order, after the ids of `seen`.
FirstSeen(docs, i, seen) ==
    IF i > Len(docs) THEN seen
    ELSE LET new == SelectSeq(DeclaredRules(docs[i]), LAMBDA n : ~Contains(seen, n))
         IN FirstSeen(docs, i + 1, seen \o new)

NoDuplicates(seq) == \A i, j \in 1..Len(seq) : seq[i] = seq[j] => i = j
Range(seq) == {seq[i] : i \in 1..Len(seq)}

\* C5: after a load, rule_names holds every key of the rules map exactly once
\* and nothing else, in first-seen order over the documents as applied (each
\* extends entry in order, then the current document).
C5_RuleNamesFirstSeenOrder ==
    LoadedOk =>
        /\ NoDuplicates(ret.cfg.rule_names)
        /\ Range(ret.cfg.rule_names) = DOMAIN ret.cfg.rules
        /\ ret.cfg.rule_names = FirstSeen(ApplicationOrder(call.doc), 1, <<>>)

\* The document without one of its keys.
WithoutKey(doc, key) ==
    LET keep == {i \in 1..Len(doc.keys) : doc.keys[i] # StrN(key)}
        idx == SelectSeq([i \in 1..Len(doc.keys) |-> i], LAMBDA i : i \in keep)
    IN MapN([i \in 1..Len(idx) |-> doc.keys[idx[i]]],
            [i \in 1..Len(idx) |-> doc.items[idx[i]]])

StringKeys(node) == {node.keys[i].str : i \in {j \in 1..Len(node.keys) : node.keys[j].tag = "str"}}
Get(node, key) == Unwrap(as_mapping_get(node, key))

\* What the extends entries alone give: the load of the document without its rules.
Inherited == from_yaml_str_with_env(WithoutKey(call.doc, "rules"),
                                    call.envx, call.base_dir, 1).cfg
OwnRules == Unwrap(as_mapping_get(call.doc, "rules"))
HasExtendsAndRules ==
    /\ is_mapping(call.doc)
    /\ ExtendsEntries(call.doc) # <<>>
    /\ IsSome(as_mapping_get(call.doc, "rules"))
    /\ is_mapping(OwnRules)

\* C6: with `extends` and `rules` in one document the extended configs come
\* first and the document's rules are overlaid by deep merge: a rule it sets
\* to `disable` is disabled, a rule it gives as a mapping has its keys merged
\* over the inherited mapping, a rule only the extended configs mention keeps
\* the extended value.
C6_DocumentOverlaysExtends ==
    (LoadedOk /\ HasExtendsAndRules) =>
        /\ \A n \in DOMAIN Inherited.rules \ StringKeys(OwnRules) :
               IsName(ret.cfg.rules, n) /\ ret.cfg.rules[n] = Inherited.rules[n]
        /\ \A n \in StringKeys(OwnRules) :
               LET own == Get(OwnRules, n)
                   got == ret.cfg.rules[n]
               IN /\ IsName(ret.cfg.rules, n)
                  /\ own = StrN("disable") => rule_level(ret.cfg, n) = None
                  /\ ~is_mapping(own) => got = own
                  /\ (is_mapping(own) /\ IsName(Inherited.rules, n)
                        /\ is_mapping(Inherited.rules[n])) =>
                        LET base == Inherited.rules[n]
                        IN /\ is_mapping(got)
                           /\ StringKeys(got) = StringKeys(base) \cup StringKeys(own)
                           /\ \A k \in StringKeys(own) : Get(got, k) = Get(own, k)
                           /\ \A k \in StringKeys(base) \ StringKeys(own) :
                                  Get(got, k) = Get(base, k)
                  /\ (is_mapping(own) /\ ~(IsName(Inherited.rules, n)
                        /\ is_mapping(Inherited.rules[n]))) => got = own

\* C6 witness: a document that extends [default, a.yml] disables the preset's
\* trailing-spaces, merges its comments mapping over a.yml's and leaves a.yml's
\* truthy alone.
C6_Witness ==
    /\ LoadedOk /\ HasExtendsAndRules
    /\ ExtendsEntries(call.doc) = <<"default", "a.yml">>
    /\ as_mapping_get(OwnRules, "trailing-spaces") = Some(StrN("disable"))
    /\ {"trailing-spaces", "comments", "truthy"} \subseteq DOMAIN Inherited.rules
    /\ Inherited.rules["trailing-spaces"] = StrN("enable")
    /\ rule_level(ret.cfg, "trailing-spaces") = None
    /\ as_mapping_get(Inherited.rules["comments"], "level") = Some(StrN("warning"))
    /\ as_mapping_get(ret.cfg.rules["comments"], "level") = Some(StrN("error"))
    /\ as_mapping_get(ret.cfg.rules["comments"], "require-starting-space")
           = Some(StrN("false"))
    /\ ret.cfg.rules["truthy"] = StrN("enable")

\* The load of the root document with `extends: [X]` in place of `extends: [X, X]`.
AppliesTwice ==
    /\ Loaded /\ is_mapping(call.doc)
    /\ Len(ExtendsEntries(call.doc)) = 2
    /\ ExtendsEntries(call.doc)[1] = ExtendsEntries(call.doc)[2]
EntryTwice == ExtendsEntries(call.doc)[1]
OnceDoc ==
    MapN(call.doc.keys,
         [i \in 1..Len(call.doc.keys) |->
             IF call.doc.keys[i] = StrN("extends")
             THEN SeqN(<<StrN(EntryTwice)>>) ELSE call.doc.items[i]])
Once == from_yaml_str_with_env(OnceDoc, call.envx, call.base_dir, 1)
\* The config of the entry alone.
EntryAlone ==
    from_yaml_str_with_env(Doc(<<<<"extends", StrN(EntryTwice)>>>>),
                           call.envx, call.base_dir, 1).cfg

C8_LoadReturns ==
    Loaded => ret.err # StackOverflow.err

\* The yaml-files list a document gives (read only when it sets the key).
YamlFilesOf(doc) ==
    LET items == Unwrap(as_mapping_get(doc, "yaml-files")).items
    IN [i \in 1..Len(items) |-> items[i].str]
SetsKey(doc, key) == IsSome(as_mapping_get(doc, key))

\* C9: the effective yaml_file_patterns is the list of the last document in
\* application order that sets `yaml-files`; a document that does not set it
\* leaves the inherited list unchanged, and the default is in effect only when
\* no document of the chain sets the key.
C9_YamlFilesOfLastSetter ==
    LoadedOk =>
        LET docs == ApplicationOrder(call.doc)
            setters == {i \in 1..Len(docs) : SetsKey(docs[i], "yaml-files")}
        IN ret.cfg.yaml_file_patterns =
               IF setters = {} THEN DEFAULT_YAML_FILE_PATTERNS
               ELSE YamlFilesOf(docs[CHOOSE i \in setters : \A j \in setters : j <= i])

\* The locale string a document gives (read only when it sets the key).
LocaleOf(doc) == Unwrap(as_mapping_get(doc, "locale")).str

normalized_lines(ls) ==
    SelectSeq([i \in 1..Len(ls) |-> trim_end_cr(ls[i])], LAMBDA l : ~is_blank(l))

\* Mutant: the first invalid glob ends the list of compiled patterns.
build_yaml_matcher_stops(cfg) ==
    [cfg EXCEPT !.yaml_matcher =
        IF cfg.yaml_file_patterns = <<>> THEN None
        ELSE IF \A k \in 1..Len(cfg.yaml_file_patterns) :
                    is_valid_glob(cfg.yaml_file_patterns[k])
        THEN Some(cfg.yaml_file_patterns)
        ELSE None]

build_yaml_matcher(cfg) ==
    [cfg EXCEPT !.yaml_matcher =
        IF cfg.yaml_file_patterns = <<>> THEN None
        ELSE Some(SelectSeq(cfg.yaml_file_patterns, is_valid_glob))]

\* The loop over ignore_from_files: the patterns read so far, or the error.
RECURSIVE finalize_ignore_from_files(_, _, _, _, _)
finalize_ignore_from_files(sources, i, envx, base_dir, extra_patterns) ==
    IF i > Len(sources) THEN OkVec(extra_patterns)
    ELSE LET source_path == PathBuf_from(sources[i])
             resolved == IF is_absolute(source_path) THEN source_path
                         ELSE join(base_dir, source_path)
             data == read_to_string(envx, resolved)
             ls == normalized_lines(text_lines(data.text))
         IN IF ~data.ok THEN ErrVec("failed to read ignore-from-file")
            ELSE IF \E k \in 1..Len(ls) : ~is_valid_glob(ls[k])
            THEN ErrVec("invalid config: ignore-from-file pattern is invalid")
            ELSE finalize_ignore_from_files(sources, i + 1, envx, base_dir,
                                            extra_patterns \o ls)

finalize(cfg, envx, base_dir) ==
    LET own == normalized_lines(cfg.ignore_patterns)
        extra == finalize_ignore_from_files(cfg.ignore_from_files, 1, envx, base_dir, <<>>)
        any_pattern == own # <<>> \/ extra.val # <<>>
    IN IF \E k \in 1..Len(own) : ~is_valid_glob(own[k])
       THEN Err("invalid config: ignore pattern is invalid")
       ELSE IF ~extra.ok THEN Err(extra.err)
       ELSE Ok(build_yaml_matcher(
                [cfg EXCEPT
                    !.ignore_patterns = @ \o extra.val,
                    !.ignore_matcher =
                        IF any_pattern
                        THEN Some([root |-> base_dir, lines |-> own \o extra.val])
                        ELSE None]))

(***************************************************************************)
(* Configuration discovery (config.rs).                                     *)
(***************************************************************************)
\* Result<ConfigContext, String> and Result<Option<ConfigContext>, String>:
\* `some` tells Ok(Some(ctx)) from Ok(None).
NoCtx == [config |-> YamlLintConfig_default, base_dir |-> RelPath(<<>>), source |-> None]
OkCtx(ctx) == [ok |-> TRUE, some |-> TRUE, ctx |-> ctx, err |-> ""]
OkNone == [ok |-> TRUE, some |-> FALSE, ctx |-> NoCtx, err |-> ""]
ErrCtx(e) == [ok |-> FALSE, some |-> FALSE, ctx |-> NoCtx, err |-> e]

\* Path::is_dir
is_dir(envx, p) == p \in envx.dirs

\* `cfg.finalize(envx, &base_dir)?` on the loader's result.
finalize_loaded(loaded, envx, base_dir) ==
    IF loaded.ok THEN finalize(loaded.cfg, envx, base_dir) ELSE loaded

\* Ok(ConfigContext { config, base_dir, source }), or the error.
finalized_ctx(final, base_dir, source) ==
    IF final.ok
    THEN OkCtx([config |-> final.cfg, base_dir |-> base_dir, source |-> source])
    ELSE ErrCtx(final.err)

\* Load `data` against base_dir, finalize, and wrap the context.
loaded_ctx(data, envx, base_dir, source) ==
    finalized_ctx(
        finalize_loaded(from_yaml_str_with_env(data, Some(envx), Some(base_dir), 1),
                        envx, base_dir),
        base_dir, source)

\* Read the file at p, then loaded_ctx.
read_ctx(envx, p, base_dir) ==
    IF read_to_string(envx, p).ok
    THEN loaded_ctx(read_to_string(envx, p).text, envx, base_dir, Some(p))
    ELSE ErrCtx("failed to read config file")

ctx_from_config_path_core(envx, p) ==
    read_ctx(envx, p, IF IsSome(parent(p)) THEN Unwrap(parent(p)) ELSE current_dir(envx))

try_env_config_core(envx) ==
    LET var == env_var(envx, "YAMLLINT_CONFIG_FILE")
    IN IF IsSome(var) /\ path_exists(envx, PathBuf_from(Unwrap(var)))
       THEN ctx_from_config_path_core(envx, PathBuf_from(Unwrap(var)))
       ELSE OkNone

try_user_global_core(envx, base_dir) ==
    LET p == join(join(Unwrap(config_dir(envx)), RelPath(<<"yamllint">>)),
                  RelPath(<<"config">>))
    IN IF IsSome(config_dir(envx)) /\ path_exists(envx, p)
       THEN read_ctx(envx, p, base_dir)
       ELSE OkNone

candidates == <<".yamllint", ".yamllint.yaml", ".yamllint.yml">>

\* The start directories of the project search, absolute and without repeats.
RECURSIVE project_starts(_, _, _, _)
project_starts(envx, inputs, i, starts) ==
    IF i > Len(inputs) THEN starts
    ELSE LET p == inputs[i]
             cwd == current_dir(envx)
             s == IF is_dir(envx, p) THEN p
                  ELSE IF IsSome(parent(p)) THEN Unwrap(parent(p)) ELSE cwd
             abs == IF is_absolute(s) THEN s ELSE join(cwd, s)
         IN project_starts(envx, inputs, i + 1,
                           IF Contains(starts, abs) THEN starts ELSE Append(starts, abs))

\* The walk up from dir: the first candidate that exists, else None.
\* Mutant: the walk goes on past the home directory, up to the root.
RECURSIVE project_walk_past_home(_, _, _)
project_walk_past_home(envx, dir, home_abs) ==
    LET found == {k \in 1..Len(candidates) :
                     path_exists(envx, join(dir, RelPath(<<candidates[k]>>)))}
    IN IF found # {}
       THEN LET k == CHOOSE k \in found : \A j \in found : k <= j
            IN Some([cfg_path |-> join(dir, RelPath(<<candidates[k]>>)), base_dir |-> dir])
       ELSE IF IsSome(parent(dir)) /\ Unwrap(parent(dir)) # dir
       THEN project_walk_past_home(envx, Unwrap(parent(dir)), home_abs)
       ELSE None

RECURSIVE project_walk(_, _, _)
project_walk(envx, dir, home_abs) ==
    LET found == {k \in 1..Len(candidates) :
                     path_exists(envx, join(dir, RelPath(<<candidates[k]>>)))}
    IN IF found # {}
       THEN LET k == CHOOSE k \in found : \A j \in found : k <= j
            IN Some([cfg_path |-> join(dir, RelPath(<<candidates[k]>>)), base_dir |-> dir])
       ELSE IF home_abs = Some(dir) THEN None
       ELSE IF IsSome(parent(dir)) /\ Unwrap(parent(dir)) # dir
       THEN project_walk(envx, Unwrap(parent(dir)), home_abs)
       ELSE None

RECURSIVE project_search(_, _, _, _)
project_search(envx, starts, i, home_abs) ==
    IF i > Len(starts) THEN None
    ELSE LET cwd == current_dir(envx)
             dir == IF is_absolute(starts[i]) THEN starts[i] ELSE join(cwd, starts[i])
             hit == project_walk(envx, dir, home_abs)
         IN IF IsSome(hit) THEN hit ELSE project_search(envx, starts, i + 1, home_abs)

find_project_config_core(envx, inputs) ==
    LET cwd == current_dir(envx)
        starts == IF inputs = <<>> THEN <<cwd>> ELSE project_starts(envx, inputs, 1, <<>>)
        home_dir == IF IsSome(env_var(envx, "HOME"))
                    THEN Some(PathBuf_from(Unwrap(env_var(envx, "HOME"))))
                    ELSE envx.home_dir
        home_abs == IF ~IsSome(home_dir) THEN None
                    ELSE IF is_absolute(Unwrap(home_dir)) THEN home_dir
                    ELSE Some(join(cwd, Unwrap(home_dir)))
    IN project_search(envx, starts, 1, home_abs)

\* The built-in default preset, finalized against the current directory.
default_ctx(envx) ==
    finalized_ctx(finalize(from_yaml_str(Unwrap(builtin("default"))).cfg,
                           envx, current_dir(envx)),
                  current_dir(envx), None)

\* `try_user_global_core(..)?.map_or_else(<default preset>, Ok)`
user_global_or_default(global, envx) ==
    IF ~global.ok \/ global.some THEN global ELSE default_ctx(envx)

\* `if let Some(ctx) = try_env_config_core(envx)? { return Ok(ctx) }`, else on.
env_or_later(from_env, envx) ==
    IF ~from_env.ok \/ from_env.some THEN from_env
    ELSE user_global_or_default(try_user_global_core(envx, current_dir(envx)), envx)

\* Mutant: the project config is looked for after YAMLLINT_CONFIG_FILE.
project_after_env(project, envx) ==
    IF ~try_env_config_core(envx).ok \/ try_env_config_core(envx).some
    THEN try_env_config_core(envx)
    ELSE IF IsSome(project)
    THEN read_ctx(envx, Unwrap(project).cfg_path, Unwrap(project).base_dir)
    ELSE user_global_or_default(try_user_global_core(envx, current_dir(envx)), envx)

\* `if let Some((cfg_path, base_dir)) = find_project_config_core(..)`, else on.
project_or_later(project, envx) ==
    IF IsSome(project)
    THEN read_ctx(envx, Unwrap(project).cfg_path, Unwrap(project).base_dir)
    ELSE env_or_later(try_env_config_core(envx), envx)

discover_config_with(inputs, overrides, envx) ==
    IF IsSome(overrides.config_data)
    THEN loaded_ctx(Unwrap(overrides.config_data), envx, current_dir(envx), None)
    ELSE IF IsSome(overrides.config_file)
    THEN read_ctx(envx, Unwrap(overrides.config_file),
                  IF IsSome(parent(Unwrap(overrides.config_file)))
                  THEN Unwrap(parent(Unwrap(overrides.config_file)))
                  ELSE current_dir(envx))
    ELSE project_or_later(find_project_config_core(envx, inputs), envx)

\* `path.is_dir() ? path : path.parent().unwrap_or(path)`
per_file_start_dir(envx, path) ==
    IF is_dir(envx, path) THEN path
    ELSE IF IsSome(parent(path)) THEN Unwrap(parent(path)) ELSE path

\* Mutant: YAMLLINT_CONFIG_FILE is consulted between project and user-global.
per_file_env_then_later(project, envx, start_dir) ==
    IF IsSome(project)
    THEN read_ctx(envx, Unwrap(project).cfg_path, Unwrap(project).base_dir)
    ELSE IF ~try_env_config_core(envx).ok \/ try_env_config_core(envx).some
    THEN try_env_config_core(envx)
    ELSE user_global_or_default(try_user_global_core(envx, start_dir), envx)

\* The body of discover_per_file_with once the project search has answered.
per_file_project_or_later(project, envx, start_dir) ==
    IF IsSome(project)
    THEN read_ctx(envx, Unwrap(project).cfg_path, Unwrap(project).base_dir)
    ELSE user_global_or_default(try_user_global_core(envx, start_dir), envx)

discover_per_file_with(path, envx) ==
    per_file_project_or_later(
        find_project_config_core(envx, <<per_file_start_dir(envx, path)>>),
        envx, per_file_start_dir(envx, path))

(***************************************************************************)
(* Inputs of discovery: the overrides, the inputs and an environment with   *)
(* cwd = /w in which each source of configuration is there or not.  Every   *)
(* source's text sets a locale of its own, so that the configuration says   *)
(* which text it was loaded from.                                           *)
(***************************************************************************)
Marked(m) == Doc(<<<<"locale", StrN(m)>>>>)
InlineData == Marked("inline")
ConfigFile == AbsPath(<<"c", "conf.yml">>)
MissingFile == AbsPath(<<"c", "none.yml">>)
P == AbsPath(<<"w", "p">>)
Project1 == AbsPath(<<"w", "p", ".yamllint">>)
Project2 == AbsPath(<<"w", ".yamllint.yaml">>)
Project3 == AbsPath(<<".yamllint.yml">>)
EnvFile == AbsPath(<<"e", "env.yml">>)
UserDir == AbsPath(<<"u">>)
UserFile == AbsPath(<<"u", "yamllint", "config">>)

OverridesSet ==
    {[config_data |-> None, config_file |-> None],
     [config_data |-> Some(InlineData), config_file |-> None],
     [config_data |-> Some(InvalidYaml), config_file |-> None],
     [config_data |-> None, config_file |-> Some(ConfigFile)],
     [config_data |-> None, config_file |-> Some(MissingFile)],
     [config_data |-> Some(InlineData), config_file |-> Some(ConfigFile)]}

InputsSet ==
    {<<>>,
     <<AbsPath(<<"w", "p", "f.yaml">>)>>,
     <<P>>,
     <<RelPath(<<"p", "f.yaml">>)>>,
     <<AbsPath(<<"w", "q", "g.yaml">>), AbsPath(<<"w", "p", "f.yaml">>)>>}

\* The project configs that are there, each with the text it holds.
ProjectFiles ==
    {EmptyMap,
     Project1 :> Doc(<<<<"locale", StrN("project1")>>,
                       <<"ignore", StrN("docs/**\n\nbuild/\n")>>>>),
     Project2 :> Marked("project2"),
     Project3 :> Marked("project3"),
     (Project1 :> Marked("project1")) @@ (Project2 :> Marked("project2"))}

\* The files that can be read, and the paths that exist but cannot be read.
DiscoverFiles ==
    {[files |-> (ConfigFile :> Marked("file")) @@ fp @@ fe @@ fu, exists |-> {}] :
        fp \in ProjectFiles,
        fe \in {EmptyMap, EnvFile :> Marked("env")},
        fu \in {EmptyMap, UserFile :> Marked("user")}}
    \cup
    {[files |-> (ConfigFile :> Marked("file")) @@ fe @@ fu, exists |-> {Project3}] :
        fe \in {EmptyMap, EnvFile :> Marked("env")},
        fu \in {EmptyMap, UserFile :> Marked("user")}}

\* HOME and the home directory of the operating system.
HomeSet ==
    {[var |-> None, os |-> None],
     [var |-> Some("/w"), os |-> None],
     [var |-> None, os |-> Some(W)]}

\* YAMLLINT_CONFIG_FILE and config_dir: both unset, one set, both set.
DiscoverEnvs ==
    {[cwd |-> W, config_dir |-> cd, files |-> f.files, exists |-> f.exists,
      vars |-> ("YAMLLINT_CONFIG_FILE" :> ev) @@ ("HOME" :> h.var),
      dirs |-> {W, P, AbsPath(<<>>)}, home_dir |-> h.os] :
        cd \in {None, Some(UserDir)},
        f \in DiscoverFiles,
        ev \in {None, Some("/e/env.yml")},
        h \in HomeSet}

DiscoverCalls ==
    {[op |-> "discover_config_with", inputs |-> i, overrides |-> o, envx |-> e] :
        i \in InputsSet, o \in OverridesSet, e \in DiscoverEnvs}

InitDiscover == pc = "start" /\ call \in DiscoverCalls /\ ret = <<>>

Discover ==
    /\ pc = "start"
    /\ call.op = "discover_config_with"
    /\ ret' = discover_config_with(call.inputs, call.overrides, call.envx)
    /\ pc' = "done"
    /\ UNCHANGED call

NextDiscover == Discover
SpecDiscover == InitDiscover /\ [][NextDiscover]_vars

Discovered == pc = "done" /\ call.op = "discover_config_with"

\* The sources of configuration the call has, each by what makes it available.
HasInline == IsSome(call.overrides.config_data)
HasFile == IsSome(call.overrides.config_file)
ProjectHit == find_project_config_core(call.envx, call.inputs)
HasProject == IsSome(ProjectHit)
HasEnvFile ==
    /\ IsSome(env_var(call.envx, "YAMLLINT_CONFIG_FILE"))
    /\ path_exists(call.envx, PathBuf_from(Unwrap(env_var(call.envx, "YAMLLINT_CONFIG_FILE"))))
HasUserGlobal ==
    /\ IsSome(config_dir(call.envx))
    /\ path_exists(call.envx, UserFile)

\* The source the precedence names: the first that is available.
Preferred ==
    CASE HasInline -> "inline"
      [] ~HasInline /\ HasFile -> "file"
      [] ~HasInline /\ ~HasFile /\ HasProject -> "project"
      [] ~HasInline /\ ~HasFile /\ ~HasProject /\ HasEnvFile -> "env"
      [] ~HasInline /\ ~HasFile /\ ~HasProject /\ ~HasEnvFile /\ HasUserGlobal -> "user"
      [] OTHER -> "default"

PreferredPath ==
    CASE Preferred = "file" -> Some(Unwrap(call.overrides.config_file))
      [] Preferred = "project" -> Some(Unwrap(ProjectHit).cfg_path)
      [] Preferred = "env" -> Some(EnvFile)
      [] Preferred = "user" -> Some(UserFile)
      [] OTHER -> None

\* The preferred source's text: what there is to load, None when it cannot be read.
PreferredText ==
    CASE Preferred = "inline" -> call.overrides.config_data
      [] Preferred = "default" -> Some(DEFAULT)
      [] OTHER -> IF Unwrap(PreferredPath) \in DOMAIN call.envx.files
                  THEN Some(call.envx.files[Unwrap(PreferredPath)])
                  ELSE None

MaxLine == 2
MaxCol == 2

\* Result<Vec<LintProblem>, String>
OkDiags(ds) == [ok |-> TRUE, diagnostics |-> ds, err |-> ""]
ErrDiags(e) == [ok |-> FALSE, diagnostics |-> <<>>, err |-> e]

\* impl From<RuleLevel> for Severity
Severity_from(level) == IF level = "Warning" THEN "Warning" ELSE "Error"

LintProblem(line, column, level, message, rule) ==
    [line |-> line, column |-> column, level |-> level, message |-> message, rule |-> rule]

\* Path::strip_prefix(base).map_or(path, |r| r)
strip_prefix_or_self(path, base) ==
    IF /\ path.abs = base.abs
       /\ Len(base.comps) <= Len(path.comps)
       /\ SubSeq(path.comps, 1, Len(base.comps)) = base.comps
    THEN RelPath(SubSeq(path.comps, Len(base.comps) + 1, Len(path.comps)))
    ELSE path

\* Whether the gitignore pattern matches the relative path.
pattern_matches(pat, rel) ==
    \/ pat = "f.yaml" /\ rel = RelPath(<<"f.yaml">>)
    \/ pat = "*.yaml" /\ rel.comps # <<>> /\ rel.comps[Len(rel.comps)] \in {"f.yaml", "g.yaml"}

\* The per-rule `ignore` sub-option, parsed as the top-level one and tested
\* against the path relative to base_dir.
is_rule_ignored(cfg, id, path, base_dir) ==
    /\ IsName(cfg.rules, id)
    /\ IsSome(as_mapping_get(cfg.rules[id], "ignore"))
    /\ LET pats == load_ignore_patterns(Unwrap(as_mapping_get(cfg.rules[id], "ignore")))
           rel == strip_prefix_or_self(path, base_dir)
       IN pats.ok /\ \E k \in 1..Len(pats.val) : pattern_matches(pats.val[k], rel)

\* The rules lint_file runs, in the order it runs them.
RunOrder ==
    <<"new-line-at-end-of-file", "new-lines", "octal-values", "quoted-strings",
      "truthy", "key-ordering", "line-length", "trailing-spaces">>

\* <rule>::check(&content, ..): the rule's hits on the content.
check(id, content) == content.hits[id]

\* One `if let Some(level) = cfg.rule_level(ID) && !cfg.is_rule_ignored(..)`
\* block: the rule's hits pushed at the rule's level.
run_rule(diagnostics, id, content, cfg, path, base_dir) ==
    IF IsSome(rule_level(cfg, id)) /\ ~is_rule_ignored(cfg, id, path, base_dir)
    THEN LET hits == check(id, content)
         IN diagnostics \o
            [k \in 1..Len(hits) |->
                LintProblem(hits[k].line, hits[k].column,
                            Severity_from(Unwrap(rule_level(cfg, id))),
                            hits[k].message, Some(id))]
    ELSE diagnostics

collect_line_length_diagnostics(diagnostics, content, cfg, path, base_dir) ==
    run_rule(diagnostics, "line-length", content, cfg, path, base_dir)

RECURSIVE run_rules(_, _, _, _, _, _)
run_rules(diagnostics, i, content, cfg, path, base_dir) ==
    IF i > Len(RunOrder) THEN diagnostics
    ELSE run_rules(IF RunOrder[i] = "line-length"
                   THEN collect_line_length_diagnostics(diagnostics, content, cfg,
                                                        path, base_dir)
                   ELSE run_rule(diagnostics, RunOrder[i], content, cfg, path, base_dir),
                   i + 1, content, cfg, path, base_dir)

syntax_diagnostic(content) ==
    IF ~IsSome(content.syntax) THEN None
    ELSE LET err == Unwrap(content.syntax)
         IN Some(LintProblem(err.line, err.col + 1, "Error",
                             <<"syntax error: ", err.info, " (syntax)">>, None))

\* Mutant: the syntax diagnostic is pushed after the rules' diagnostics.
lint_file_keeps_hits(path, cfg, base_dir, fs) ==
    IF path \notin DOMAIN fs THEN ErrDiags("failed to read")
    ELSE LET content == fs[path]
             diagnostics == run_rules(<<>>, 1, content, cfg, path, base_dir)
             syntax == syntax_diagnostic(content)
         IN IF IsSome(syntax) THEN OkDiags(Append(diagnostics, Unwrap(syntax)))
            ELSE OkDiags(diagnostics)

\* lint_file; fs is the file system fs::read_to_string reads.
lint_file(path, cfg, base_dir, fs) ==
    IF path \notin DOMAIN fs THEN ErrDiags("failed to read")
    ELSE LET content == fs[path]
             diagnostics == run_rules(<<>>, 1, content, cfg, path, base_dir)
             syntax == syntax_diagnostic(content)
         IN IF IsSome(syntax) THEN OkDiags(<<Unwrap(syntax)>>)
            ELSE OkDiags(diagnostics)

(***************************************************************************)
(* Inputs of lint_file: the file /w/f.yaml under base_dir /w, a content     *)
(* on which at most two rules have hits, and a configuration loaded from a  *)
(* document that enables every rule except that the rules with hits have    *)
(* any of the statuses a rule can have.                                     *)
(***************************************************************************)
LintPath == AbsPath(<<"w", "f.yaml">>)

\* The rule set, in the order the configuration document lists it.
RuleSetOrder ==
    RunOrder \o <<"document-end", "comments", "comments-indentation", "brackets">>
RuleSet == {RuleSetOrder[i] : i \in 1..Len(RuleSetOrder)}
RuleIndex(id) == CHOOSE i \in 1..Len(RuleSetOrder) : RuleSetOrder[i] = id

Statuses == {"absent", "enable", "disable", "warning", "ignored", "ignored-elsewhere"}
StatusValue(st) ==
    CASE st = "enable" -> StrN("enable")
      [] st = "disable" -> StrN("disable")
      [] st = "warning" -> Doc(<<<<"level", StrN("warning")>>>>)
      [] st = "ignored" -> Doc(<<<<"ignore", StrN("*.yaml")>>>>)
      [] st = "ignored-elsewhere" -> Doc(<<<<"ignore", StrN("docs/**\n\nbuild/\n")>>>>)

\* The configuration loaded from `rules: {<id>: <value>, ...}`.
LintCfg(st) ==
    LET present == SelectSeq(RuleSetOrder, LAMBDA id : st[id] # "absent")
    IN from_yaml_str(Doc(<<<<"rules",
                             MapN([i \in 1..Len(present) |-> StrN(present[i])],
                                  [i \in 1..Len(present) |-> StatusValue(st[present[i]])])
                           >>>>)).cfg

Positions == (1..MaxLine) \X (1..MaxCol)
Before(p, q) == p[1] < q[1] \/ (p[1] = q[1] /\ p[2] < q[2])

Message(id) ==
    CASE id = "new-line-at-end-of-file" -> "no new line character at the end of file"
      [] id = "trailing-spaces" -> "trailing spaces"
      [] id = "document-end" -> "missing document end \"...\""
      [] id = "comments-indentation" -> "comment not indented like content"
      [] OTHER -> "violation"
Hit(id, p) == [line |-> p[1], column |-> p[2], message |-> Message(id)]

NoHits == [id \in RuleSet |-> <<>>]

\* What the parser reports: nothing, or a fatal error at a 0-based column.
SyntaxSet ==
    {None,
     Some([line |-> MaxLine, col |-> MaxCol - 1, info |-> "mapping values are not allowed"])}

\* One rule with one hit or with two hits in order (new-line-at-end-of-file
\* has at most one), or two rules with one hit each.
HitsSet ==
    {NoHits}
    \cup {[NoHits EXCEPT ![r] = <<Hit(r, p)>>] : r \in RuleSet, p \in Positions}
    \cup {[NoHits EXCEPT ![r] = <<Hit(r, p), Hit(r, q)>>] :
            r \in RuleSet \ {"new-line-at-end-of-file"},
            <<p, q>> \in {pq \in Positions \X Positions : Before(pq[1], pq[2])}}
    \cup {[NoHits EXCEPT ![r1] = <<Hit(r1, p)>>, ![r2] = <<Hit(r2, q)>>] :
            <<r1, r2>> \in {rr \in RuleSet \X RuleSet : RuleIndex(rr[1]) < RuleIndex(rr[2])},
            <<p, q>> \in Positions \X Positions}

HitRules(hits) == {id \in RuleSet : hits[id] # <<>>}

\* Every rule enabled, but any status for the one rule that has hits, or
\* enabled, disabled or a warning for each of the two.
AllEnabled == [id \in RuleSet |-> "enable"]
StatusesFor(hits) ==
    LET rs == HitRules(hits)
        sts == IF Cardinality(rs) > 1 THEN {"enable", "disable", "warning"} ELSE Statuses
    IN {[id \in RuleSet |-> IF id \in rs THEN f[id] ELSE "enable"] : f \in [rs -> sts]}

LintCalls ==
    {[op |-> "lint_file", path |-> LintPath, cfg |-> LintCfg(st), base_dir |-> W,
      fs |-> (LintPath :> [hits |-> h, syntax |-> sx])] :
        <<h, st, sx>> \in UNION {{h} \X StatusesFor(h) \X SyntaxSet : h \in HitsSet}}
    \cup
    {[op |-> "lint_file", path |-> LintPath, cfg |-> LintCfg(AllEnabled),
      base_dir |-> W, fs |-> EmptyMap]}

InitLint == pc = "start" /\ call \in LintCalls /\ ret = <<>>

Lint ==
    /\ pc = "start"
    /\ call.op = "lint_file"
    /\ ret' = lint_file(call.path, call.cfg, call.base_dir, call.fs)
    /\ pc' = "done"
    /\ UNCHANGED call

NextLint == Lint
SpecLint == InitLint /\ [][NextLint]_vars

Linted == pc = "done" /\ call.op = "lint_file"
Content == call.fs[call.path]
Parses == call.path \in DOMAIN call.fs /\ ~IsSome(Content.syntax)
Runs(id) ==
    /\ IsSome(rule_level(call.cfg, id))
    /\ ~is_rule_ignored(call.cfg, id, call.path, call.base_dir)

\* C2: when the parser reports a fatal syntax error, lint_file returns exactly
\* one diagnostic, of level Error, with rule None and the message
\* "syntax error: <info> (syntax)", whatever the rules had produced.
C2_SyntaxErrorShadowsRules ==
    (Linted /\ call.path \in DOMAIN call.fs /\ IsSome(Content.syntax)) =>
        /\ ret.ok
        /\ Len(ret.diagnostics) = 1
        /\ ret.diagnostics[1].level = "Error"
        /\ ret.diagnostics[1].rule = None
        /\ ret.diagnostics[1].message =
               <<"syntax error: ", Unwrap(Content.syntax).info, " (syntax)">>
        /\ ret.diagnostics[1].line = Unwrap(Content.syntax).line

\* C2 witness: a syntax error in a file on which two rules that run have hits.
C2_Witness ==
    /\ Linted /\ call.path \in DOMAIN call.fs /\ IsSome(Content.syntax)
    /\ Cardinality({id \in RuleSet : Runs(id) /\ Contains(RunOrder, id)
                                     /\ check(id, Content) # <<>>}) = 2
    /\ Len(ret.diagnostics) = 1 /\ ret.diagnostics[1].rule = None

\* C3: the diagnostics lint_file returns are sorted ascending by (line, column).
C3_DiagnosticsSorted ==
    (Linted /\ ret.ok) =>
        \A i, j \in 1..Len(ret.diagnostics) :
            i < j => ~Before(<<ret.diagnostics[j].line, ret.diagnostics[j].column>>,
                             <<ret.diagnostics[i].line, ret.diagnostics[i].column>>)

\* C4: for a file that parses, no diagnostic carries the id of a rule that is
\* disabled or ignored, and every hit of every enabled, non-ignored rule of the
\* rule set is among the diagnostics.
C4_RulesRunIffEnabled ==
    (Linted /\ Parses) =>
        /\ ret.ok
        /\ \A k \in 1..Len(ret.diagnostics) :
              IsSome(ret.diagnostics[k].rule) /\ Runs(Unwrap(ret.diagnostics[k].rule))
        /\ \A id \in RuleSet : Runs(id) =>
              \A h \in 1..Len(check(id, Content)) :
                  \E k \in 1..Len(ret.diagnostics) :
                      /\ ret.diagnostics[k].rule = Some(id)
                      /\ ret.diagnostics[k].line = check(id, Content)[h].line
                      /\ ret.diagnostics[k].column = check(id, Content)[h].column

(***************************************************************************)
(* Inputs of finalize: a configuration as the loader leaves it (ignore      *)
(* patterns through load_ignore_patterns, ignore-from-file names, a         *)
(* yaml-files list) and the pattern files under base_dir /w.                *)
(***************************************************************************)
GitIgnore == AbsPath(<<"w", ".gitignore">>)
OtherIgnore == AbsPath(<<"w", "other.ign">>)

IgnoreValues ==
    {StrN("docs/**\n\nbuild/\n"), StrN("["), StrSeq(<<"build/", "[">>),
     StrN("  \nvendor/\r\n")}
IgnorePatternLists == {<<>>} \cup {load_ignore_patterns(n).val : n \in IgnoreValues}
IgnoreFromFileLists ==
    {<<>>, <<".gitignore">>, <<".gitignore", "other.ign">>, <<"missing.ign">>,
     <<"other.ign", ".gitignore">>}
YamlFileLists ==
    {DEFAULT_YAML_FILE_PATTERNS, <<>>, <<"[">>, <<"*.yaml", "[", "*.yml">>, <<"a[", "[z-a]">>}
GitIgnoreTexts ==
    {TextN(<<"build/", "", "docs/**">>), TextN(<<"[">>), TextN(<<"vendor/\r", "  ">>),
     TextN(<<>>)}
OtherIgnoreTexts == {TextN(<<"tmp/">>), TextN(<<"tmp/", "a[">>)}

FinalizeCalls ==
    {[op |-> "finalize",
      cfg |-> [YamlLintConfig_default EXCEPT
                  !.ignore_patterns = ip, !.ignore_from_files = iff,
                  !.yaml_file_patterns = yf],
      envx |-> [LoadEnv((GitIgnore :> g) @@ (OtherIgnore :> o)) EXCEPT !.cwd = AbsPath(<<"c">>)],
      base_dir |-> W] :
        ip \in IgnorePatternLists, iff \in IgnoreFromFileLists, yf \in YamlFileLists,
        g \in GitIgnoreTexts, o \in OtherIgnoreTexts}

InitFinalize == pc = "start" /\ call \in FinalizeCalls /\ ret = <<>>

Finalize ==
    /\ pc = "start"
    /\ call.op = "finalize"
    /\ ret' = finalize(call.cfg, call.envx, call.base_dir)
    /\ pc' = "done"
    /\ UNCHANGED call

NextFinalize == Finalize
SpecFinalize == InitFinalize /\ [][NextFinalize]_vars

Finalized == pc = "done" /\ call.op = "finalize"

\* The lines of the pattern file an ignore-from-file entry names, None when
\* the file cannot be read.
PatternFileLines(name) ==
    LET path == join(call.base_dir, RelPath(<<name>>))
    IN IF path \in DOMAIN call.envx.files
       THEN Some([i \in 1..Len(call.envx.files[path].items) |->
                     call.envx.files[path].items[i].str])
       ELSE None

IsInvalidPattern(line) == ~is_blank(trim_end_cr(line)) /\ ~is_valid_glob(trim_end_cr(line))

\* Some pattern of `ignore`, or of a file ignore-from-file names, is invalid.
SomeInvalidIgnore ==
    \/ \E k \in 1..Len(call.cfg.ignore_patterns) : IsInvalidPattern(call.cfg.ignore_patterns[k])
    \/ \E k \in 1..Len(call.cfg.ignore_from_files) :
          LET ls == PatternFileLines(call.cfg.ignore_from_files[k])
          IN IsSome(ls) /\ \E j \in 1..Len(Unwrap(ls)) : IsInvalidPattern(Unwrap(ls)[j])
SomeUnreadableIgnoreFile ==
    \E k \in 1..Len(call.cfg.ignore_from_files) :
        ~IsSome(PatternFileLines(call.cfg.ignore_from_files[k]))

PerFilePaths ==
    {AbsPath(<<"w", "p", "f.yaml">>), P, RelPath(<<"p", "f.yaml">>),
     AbsPath(<<"w", "q", "g.yaml">>), RelPath(<<"f.yaml">>)}

PerFileCalls ==
    {[op |-> "discover_per_file_with", path |-> f, envx |-> e] :
        f \in PerFilePaths, e \in DiscoverEnvs}

Root == AbsPath(<<>>)
SearchDirs == <<P, W, Root>>
CandidatePaths ==
    {join(SearchDirs[d], RelPath(<<candidates[k]>>)) :
        d \in 1..Len(SearchDirs), k \in 1..Len(candidates)}

ProjectHomes ==
    {[var |-> None, os |-> None],
     [var |-> Some("/w"), os |-> None],
     [var |-> Some("p"), os |-> None],
     [var |-> None, os |-> Some(W)],
     [var |-> Some("/w"), os |-> Some(P)]}

ProjectEnvs ==
    {[cwd |-> W, config_dir |-> None, files |-> EmptyMap, exists |-> ex,
      vars |-> ("HOME" :> h.var), dirs |-> {W, P, Root}, home_dir |-> h.os] :
        ex \in SUBSET CandidatePaths, h \in ProjectHomes}

ProjectCalls ==
    {[op |-> "find_project_config_core", inputs |-> i, envx |-> e] :
        i \in InputsSet \cup {<<W>>}, e \in ProjectEnvs}

InitPerFile == pc = "start" /\ call \in PerFileCalls \cup ProjectCalls /\ ret = <<>>

DiscoverPerFile ==
    /\ pc = "start"
    /\ call.op = "discover_per_file_with"
    /\ ret' = discover_per_file_with(call.path, call.envx)
    /\ pc' = "done"
    /\ UNCHANGED call

FindProjectConfig ==
    /\ pc = "start"
    /\ call.op = "find_project_config_core"
    /\ ret' = find_project_config_core(call.envx, call.inputs)
    /\ pc' = "done"
    /\ UNCHANGED call

NextPerFile == DiscoverPerFile \/ FindProjectConfig
SpecPerFile == InitPerFile /\ [][NextPerFile]_vars

PerFileDiscovered == pc = "done" /\ call.op = "discover_per_file_with"

\* The environment with YAMLLINT_CONFIG_FILE set to v, all else the same.
WithEnvConfigFile(envx, v) ==
    [envx EXCEPT !.vars = [k \in DOMAIN envx.vars |->
                              IF k = "YAMLLINT_CONFIG_FILE" THEN v ELSE envx.vars[k]]]

PerFileProject == find_project_config_core(call.envx, <<per_file_start_dir(call.envx, call.path)>>)

\* C15: discover_per_file_with applies the project search from the file's own
\* directory, then the user-global config, then the default preset; its
\* result is the same under every value of YAMLLINT_CONFIG_FILE.
C15_PerFileIgnoresEnvConfigFile ==
    PerFileDiscovered =>
        /\ \A v \in {None, Some("/e/env.yml"), Some("/w/a.yml")} :
              discover_per_file_with(call.path, WithEnvConfigFile(call.envx, v)) = ret
        /\ ret.ok =>
              ret.ctx.source =
                  IF IsSome(PerFileProject) THEN Some(Unwrap(PerFileProject).cfg_path)
                  ELSE IF HasUserGlobal THEN Some(UserFile)
                  ELSE None
        /\ ret.ok /\ ret.ctx.source = None =>
              ret.ctx.config.rule_names = <<"trailing-spaces", "document-end">>

\* C15 witness: YAMLLINT_CONFIG_FILE names a readable config, there is no
\* project config and no user-global config: the default preset is used.
C15_Witness ==
    /\ PerFileDiscovered /\ ret.ok
    /\ HasEnvFile /\ ~IsSome(PerFileProject) /\ ~HasUserGlobal
    /\ ret.ctx.source = None
    /\ ret.ctx.config.locale = None

ProjectSearched == pc = "done" /\ call.op = "find_project_config_core"

\* The home directory the search compares with, made absolute.
HomeAbs ==
    LET h == IF IsSome(env_var(call.envx, "HOME"))
             THEN Some(PathBuf_from(Unwrap(env_var(call.envx, "HOME"))))
             ELSE call.envx.home_dir
    IN IF ~IsSome(h) THEN None
       ELSE IF is_absolute(Unwrap(h)) THEN h
       ELSE Some(join(current_dir(call.envx), Unwrap(h)))

\* dir and its ancestors, nearest first, up to the root.
Ancestors(dir) ==
    [i \in 1..(Len(dir.comps) + 1) |->
        [abs |-> dir.abs, comps |-> SubSeq(dir.comps, 1, Len(dir.comps) + 1 - i)]]

\* The levels a walk from dir may visit: its ancestors up to the home
\* directory when that is one of them, else up to the root.
Levels(dir) ==
    LET anc == Ancestors(dir)
        at == {i \in 1..Len(anc) : Some(anc[i]) = HomeAbs}
    IN IF at = {} THEN anc ELSE SubSeq(anc, 1, CHOOSE i \in at : TRUE)

SearchStarts ==
    IF call.inputs = <<>> THEN <<current_dir(call.envx)>>
    ELSE project_starts(call.envx, call.inputs, 1, <<>>)

ExistsAt(dir, k) == path_exists(call.envx, join(dir, RelPath(<<candidates[k]>>)))
AnyAt(dir) == \E k \in 1..Len(candidates) : ExistsAt(dir, k)
AnyOnWalk(start) == \E l \in 1..Len(Levels(start)) : AnyAt(Levels(start)[l])
InsideHome(dir) ==
    /\ IsSome(HomeAbs)
    /\ \E l \in 1..Len(Ancestors(dir)) : Some(Ancestors(dir)[l]) = HomeAbs

\* C16: the project search returns, for the first start directory whose walk
\* finds anything, the nearest level with an existing candidate and at that
\* level the first existing name of .yamllint, .yamllint.yaml, .yamllint.yml;
\* a walk stops at the home directory, so starts inside home never yield a
\* config of a strict ancestor of home; nothing is returned only when no
\* walk, ended at home or at the root, finds a candidate.
C16_ProjectSearchNearestFirstStopsAtHome ==
    ProjectSearched =>
        /\ ~IsSome(ret) <=> \A s \in 1..Len(SearchStarts) : ~AnyOnWalk(SearchStarts[s])
        /\ IsSome(ret) =>
              \E s \in 1..Len(SearchStarts) :
                 /\ \A t \in 1..(s - 1) : ~AnyOnWalk(SearchStarts[t])
                 /\ \E l \in 1..Len(Levels(SearchStarts[s])) :
                       /\ Unwrap(ret).base_dir = Levels(SearchStarts[s])[l]
                       /\ \A n \in 1..(l - 1) : ~AnyAt(Levels(SearchStarts[s])[n])
                       /\ \E k \in 1..Len(candidates) :
                             /\ Unwrap(ret).cfg_path =
                                   join(Unwrap(ret).base_dir, RelPath(<<candidates[k]>>))
                             /\ ExistsAt(Unwrap(ret).base_dir, k)
                             /\ \A j \in 1..(k - 1) : ~ExistsAt(Unwrap(ret).base_dir, j)
        /\ (IsSome(ret) /\ \A s \in 1..Len(SearchStarts) : InsideHome(SearchStarts[s])) =>
              InsideHome(Unwrap(ret).base_dir)

\* C16 witness: home is /w/p (HOME=p, relative to the current directory /w),
\* the start is /w/p, candidates exist in /w and in the root only: no config.
C16_Witness ==
    /\ ProjectSearched
    /\ call.inputs = <<P>>
    /\ HomeAbs = Some(P)
    /\ env_var(call.envx, "HOME") = Some("p")
    /\ AnyAt(W) /\ AnyAt(Root) /\ ~AnyAt(P)
    /\ ret = None

(***************************************************************************)
(* The command line (main.rs).  ret is the state of main: the global        *)
(* config, the candidates and explicit files still to filter, the files to  *)
(* lint with their configs, the indices the parallel workers have not       *)
(* linted yet, what they have collected, the sorted results, both output    *)
(* streams and the exit code.  The output is in the standard format; the    *)
(* Github format differs in the text of its lines only.                     *)
(***************************************************************************)
\* The extension of a file name.
extension(name) ==
    CASE name \in {"f.yaml", "g.yaml"} -> Some("yaml")
      [] name = "n.txt" -> Some("txt")
      [] OTHER -> None

\* GlobSet::is_match for one glob: `*` also matches across separators.
glob_is_match(pat, rel) ==
    CASE pat = "*.yaml" -> rel.comps # <<>> /\ extension(rel.comps[Len(rel.comps)]) = Some("yaml")
      [] pat = "*.yml" -> rel.comps # <<>> /\ extension(rel.comps[Len(rel.comps)]) = Some("yml")
      [] OTHER -> rel.comps = <<pat>>

\* discover::is_yaml_path: the extension is yaml or yml.
is_yaml_path(path) ==
    path.comps # <<>> /\ extension(path.comps[Len(path.comps)]) \in {Some("yaml"), Some("yml")}

is_file_ignored(cfg, path, base_dir) ==
    IF ~IsSome(cfg.ignore_matcher) THEN FALSE
    ELSE \E k \in 1..Len(Unwrap(cfg.ignore_matcher).lines) :
            pattern_matches(Unwrap(cfg.ignore_matcher).lines[k],
                            strip_prefix_or_self(path, base_dir))

is_yaml_candidate(cfg, path, base_dir) ==
    IF IsSome(cfg.yaml_matcher)
    THEN \E k \in 1..Len(Unwrap(cfg.yaml_matcher)) :
            glob_is_match(Unwrap(cfg.yaml_matcher)[k], strip_prefix_or_self(path, base_dir))
    ELSE is_yaml_path(path)

\* gather_inputs: the files walked under each directory, and the other inputs.
RECURSIVE gather_inputs_from(_, _, _, _, _)
gather_inputs_from(inputs, i, world, found, explicit) ==
    IF i > Len(inputs) THEN [candidates |-> found, explicit_files |-> explicit]
    ELSE IF is_dir(world.envx, inputs[i])
    THEN gather_inputs_from(inputs, i + 1, world, found \o world.walk[inputs[i]], explicit)
    ELSE gather_inputs_from(inputs, i + 1, world, found, Append(explicit, inputs[i]))

gather_inputs(inputs, world) == gather_inputs_from(inputs, 1, world, <<>>, <<>>)

\* `extends: {raw}` for config data that is a bare word without a colon.
wrap_config_data(raw) ==
    IF raw.tag = "str" /\ raw.str # "" THEN Doc(<<<<"extends", raw>>>>) ELSE raw

build_global_cfg(inputs, cli, envx) ==
    IF \/ IsSome(cli.config_data)
       \/ IsSome(cli.config_file)
       \/ IsSome(env_var(envx, "YAMLLINT_CONFIG_FILE"))
    THEN discover_config_with(
             inputs,
             [config_file |-> cli.config_file,
              config_data |-> IF IsSome(cli.config_data)
                              THEN Some(wrap_config_data(Unwrap(cli.config_data)))
                              ELSE None],
             envx)
    ELSE OkNone

\* cli_support::resolve_ctx: the global config when there is one, else the
\* per-file discovery for the file (its cache holds what discovery returned).
resolve_ctx(f, global_cfg, envx) ==
    IF global_cfg.some THEN global_cfg ELSE discover_per_file_with(f, envx)

UsageLine == <<"error: expected one or more paths (files and/or directories)">>
ErrorLine(e) == <<"error", e>>
PathLine(path) == <<"path", path>>
ProblemLine(problem) == <<"problem", problem>>
BlankLine == <<"">>

\* `eprintln!("{e}"); return ExitCode::from(2);`
exit_with_error(st, e) ==
    [st EXCEPT !.stderr = Append(@, ErrorLine(e)), !.exit = Some(2)]

\* Mutant: a file whose config cannot be resolved is left out, the run goes on.
filter_resolved_skips_errors(st, f, resolved) ==
    IF ~resolved.ok THEN st
    ELSE IF /\ ~is_file_ignored(resolved.ctx.config, f, resolved.ctx.base_dir)
            /\ is_yaml_candidate(resolved.ctx.config, f, resolved.ctx.base_dir)
    THEN [st EXCEPT !.files = Append(@, [path |-> f, cfg |-> resolved.ctx.config,
                                         base_dir |-> resolved.ctx.base_dir])]
    ELSE st

\* One iteration of a filter loop, with what resolve_ctx returned for f.  The
\* base_dir is kept with the file: it is the one lint_file is given.
filter_resolved(st, f, resolved) ==
    IF ~resolved.ok THEN exit_with_error(st, resolved.err)
    ELSE IF /\ ~is_file_ignored(resolved.ctx.config, f, resolved.ctx.base_dir)
            /\ is_yaml_candidate(resolved.ctx.config, f, resolved.ctx.base_dir)
    THEN [st EXCEPT !.files = Append(@, [path |-> f, cfg |-> resolved.ctx.config,
                                         base_dir |-> resolved.ctx.base_dir])]
    ELSE st

\* Mutant: the collected results are processed in the order they arrived.
sort_by_key_keeps_order(results) == results

\* results.sort_by_key(|(idx, _)| *idx): a stable sort by the index.
RECURSIVE sort_by_key(_)
sort_by_key(results) ==
    IF results = <<>> THEN <<>>
    ELSE LET sorted == sort_by_key(SubSeq(results, 1, Len(results) - 1))
             x == results[Len(results)]
             k == Cardinality({j \in 1..Len(sorted) : sorted[j][1] <= x[1]})
         IN SubSeq(sorted, 1, k) \o <<x>> \o SubSeq(sorted, k + 1, Len(sorted))

\* The lines and flags of one Ok(diagnostics) outcome.
report_problems(acc, path, problems) ==
    IF problems = <<>> THEN acc
    ELSE [stderr |-> acc.stderr \o <<PathLine(path)>>
                     \o [k \in 1..Len(problems) |-> ProblemLine(problems[k])]
                     \o <<BlankLine>>,
          has_error |-> acc.has_error \/ \E k \in 1..Len(problems) : problems[k].level = "Error",
          has_warning |-> acc.has_warning
                          \/ \E k \in 1..Len(problems) : problems[k].level = "Warning"]

RECURSIVE process_results_from(_, _, _, _, _)
process_results_from(files, results, i, no_warnings, acc) ==
    IF i > Len(results) THEN acc
    ELSE process_results_from(
             files, results, i + 1, no_warnings,
             IF ~results[i][2].ok
             THEN [acc EXCEPT !.stderr = Append(@, ErrorLine(results[i][2].err)),
                              !.has_error = TRUE]
             ELSE report_problems(
                      acc, files[results[i][1] + 1].path,
                      SelectSeq(results[i][2].diagnostics,
                                LAMBDA problem : ~(no_warnings /\ problem.level = "Warning"))))

process_results(files, results, no_warnings) ==
    process_results_from(files, results, 1, no_warnings,
                         [stderr |-> <<>>, has_error |-> FALSE, has_warning |-> FALSE])

\* The exit code main ends with after the results are processed.
exit_code(has_error, has_warning, strict) ==
    IF has_error THEN 1 ELSE IF has_warning /\ strict THEN 2 ELSE 0

\* main once the parallel map has collected: sort, report, exit code.
report(st, sorted, processed, strict) ==
    [st EXCEPT !.results = sorted,
               !.stderr = @ \o processed.stderr,
               !.exit = Some(exit_code(processed.has_error, processed.has_warning, strict))]

main_state ==
    [global_cfg |-> OkNone, candidates |-> <<>>, explicit_files |-> <<>>, files |-> <<>>,
     pending |-> {}, collected |-> <<>>, results |-> <<>>, stdout |-> <<>>,
     stderr |-> <<>>, exit |-> None]

\* main up to gather_inputs, with what build_global_cfg returned.
main_start(st, cli, world, global) ==
    IF cli.inputs = <<>>
    THEN [st EXCEPT !.stderr = Append(@, UsageLine), !.exit = Some(2)]
    ELSE IF ~global.ok THEN exit_with_error(st, global.err)
    ELSE [st EXCEPT !.global_cfg = global,
                    !.candidates = gather_inputs(cli.inputs, world).candidates,
                    !.explicit_files = gather_inputs(cli.inputs, world).explicit_files]

\* main after the filter loops: --list-files, nothing to lint, or the fan-out.
main_dispatch(st, cli) ==
    IF cli.list_files
    THEN [st EXCEPT !.stdout = [k \in 1..Len(st.files) |-> st.files[k].path],
                    !.exit = Some(0)]
    ELSE IF st.files = <<>> THEN [st EXCEPT !.exit = Some(0)]
    ELSE [st EXCEPT !.pending = 0..(Len(st.files) - 1)]

(***************************************************************************)
(* Inputs of main: the current directory /w with f.yaml, g.yaml, n.txt and  *)
(* the directory d (g.yaml and n.txt in it); at most MaxInputs inputs; the  *)
(* project configs that are there; inline config data or none; the flags;   *)
(* and what f.yaml holds.                                                   *)
(***************************************************************************)
MaxInputs == 2

CliF == AbsPath(<<"w", "f.yaml">>)
CliG == AbsPath(<<"w", "g.yaml">>)
CliN == AbsPath(<<"w", "n.txt">>)
CliD == AbsPath(<<"w", "d">>)
CliDG == AbsPath(<<"w", "d", "g.yaml">>)
CliDN == AbsPath(<<"w", "d", "n.txt">>)

CliInputs == UNION {[1..n -> {CliF, CliG, CliN, CliD}] : n \in 0..MaxInputs}

\* truthy reports warnings, trailing-spaces errors.
WarnRules ==
    <<"rules", Doc(<<<<"truthy", Doc(<<<<"level", StrN("warning")>>>>)>>,
                     <<"trailing-spaces", StrN("enable")>>>>)>>
WarnDoc == Doc(<<WarnRules>>)
IgnoreDoc == Doc(<<<<"ignore", StrN("f.yaml")>>, WarnRules>>)

CliProjects ==
    {EmptyMap,
     Project2 :> WarnDoc,
     Project2 :> IgnoreDoc,
     Project2 :> InvalidYaml,
     (Project2 :> InvalidYaml) @@ (AbsPath(<<"w", "d", ".yamllint">>) :> WarnDoc)}

CliFlags ==
    {[strict |-> st, no_warnings |-> nw, list_files |-> FALSE] : st, nw \in BOOLEAN}
    \cup {[strict |-> FALSE, no_warnings |-> FALSE, list_files |-> TRUE]}

TruthyHit == [NoHits EXCEPT !["truthy"] = <<Hit("truthy", <<1, 1>>)>>]
SpacesHit == [NoHits EXCEPT !["trailing-spaces"] = <<Hit("trailing-spaces", <<1, 2>>)>>]
BothHit ==
    [NoHits EXCEPT !["truthy"] = <<Hit("truthy", <<1, 1>>)>>,
                   !["trailing-spaces"] = <<Hit("trailing-spaces", <<1, 2>>)>>]

\* What f.yaml holds, or nothing when it cannot be read.
CliFContents ==
    {EmptyMap} \cup
    {CliF :> [hits |-> h, syntax |-> None] : h \in {NoHits, TruthyHit, BothHit}}

CliFs(f) ==
    f @@ (CliG :> [hits |-> TruthyHit, syntax |-> None])
      @@ (CliN :> [hits |-> NoHits, syntax |-> None])
      @@ (CliDG :> [hits |-> SpacesHit, syntax |-> None])
      @@ (CliDN :> [hits |-> NoHits, syntax |-> None])

CliCalls ==
    {[op |-> "main",
      cli |-> [inputs |-> i, config_file |-> None, config_data |-> d,
               list_files |-> fl.list_files, strict |-> fl.strict,
               no_warnings |-> fl.no_warnings],
      world |-> [envx |-> [cwd |-> W, config_dir |-> None, files |-> pf, exists |-> {},
                           vars |-> EmptyMap, dirs |-> {W, CliD, Root}, home_dir |-> None],
                 walk |-> (CliD :> <<CliDG, CliDN>>),
                 fs |-> CliFs(f)]] :
        i \in CliInputs, d \in {None, Some(WarnDoc), Some(InvalidYaml)},
        fl \in CliFlags, pf \in CliProjects, f \in CliFContents}

InitCli == pc = "start" /\ call \in CliCalls /\ ret = main_state

\* main 114-134: the usage check, build_global_cfg, gather_inputs.
MainStart ==
    /\ pc = "start"
    /\ call.op = "main"
    /\ ret' = main_start(ret, call.cli, call.world,
                         build_global_cfg(call.cli.inputs, call.cli, call.world.envx))
    /\ pc' = IF IsSome(ret'.exit) THEN "exit" ELSE "filter"
    /\ UNCHANGED call

\* main 139-152: one iteration of the loop over the candidates.
FilterCandidate ==
    /\ pc = "filter"
    /\ ret.candidates # <<>>
    /\ ret' = filter_resolved([ret EXCEPT !.candidates = Tail(@)], Head(ret.candidates),
                              resolve_ctx(Head(ret.candidates), ret.global_cfg,
                                          call.world.envx))
    /\ pc' = IF IsSome(ret'.exit) THEN "exit" ELSE "filter"
    /\ UNCHANGED call

\* main 154-167: one iteration of the loop over the explicit files.
FilterExplicit ==
    /\ pc = "filter"
    /\ ret.candidates = <<>>
    /\ ret.explicit_files # <<>>
    /\ ret' = filter_resolved([ret EXCEPT !.explicit_files = Tail(@)],
                              Head(ret.explicit_files),
                              resolve_ctx(Head(ret.explicit_files), ret.global_cfg,
                                          call.world.envx))
    /\ pc' = IF IsSome(ret'.exit) THEN "exit" ELSE "filter"
    /\ UNCHANGED call

\* main 169-178: --list-files, no files, or the start of the parallel map.
Dispatch ==
    /\ pc = "filter"
    /\ ret.candidates = <<>>
    /\ ret.explicit_files = <<>>
    /\ ret' = main_dispatch(ret, call.cli)
    /\ pc' = IF IsSome(ret'.exit) THEN "exit" ELSE "lint"
    /\ UNCHANGED call

\* main 180-184: a worker lints a file not linted yet; the workers finish in
\* any order.
LintWorker ==
    /\ pc = "lint"
    /\ \E idx \in ret.pending :
          ret' = [ret EXCEPT
                    !.pending = @ \ {idx},
                    !.collected = Append(@, <<idx, lint_file(ret.files[idx + 1].path,
                                                             ret.files[idx + 1].cfg,
                                                             ret.files[idx + 1].base_dir,
                                                             call.world.fs)>>)]
    /\ UNCHANGED <<pc, call>>

\* main 186-197: the sort, process_results and the exit code.
Report ==
    /\ pc = "lint"
    /\ ret.pending = {}
    /\ ret' = report(ret, sort_by_key(ret.collected),
                     process_results(ret.files, sort_by_key(ret.collected),
                                     call.cli.no_warnings),
                     call.cli.strict)
    /\ pc' = "exit"
    /\ UNCHANGED call

NextCli ==
    \/ MainStart
    \/ FilterCandidate
    \/ FilterExplicit
    \/ Dispatch
    \/ LintWorker
    \/ Report
SpecCli == InitCli /\ [][NextCli]_vars

Exited == pc = "exit" /\ call.op = "main"

UsageError == call.cli.inputs = <<>>

GlobalCfg == build_global_cfg(call.cli.inputs, call.cli, call.world.envx)
Gathered ==
    gather_inputs(call.cli.inputs, call.world).candidates
    \o gather_inputs(call.cli.inputs, call.world).explicit_files

\* The run has a configuration error: the global config fails to load, or
\* there is none and the config of one of the gathered files fails to resolve.
ConfigError ==
    /\ ~UsageError
    /\ \/ ~GlobalCfg.ok
       \/ /\ GlobalCfg.ok /\ ~GlobalCfg.some
          /\ \E k \in 1..Len(Gathered) :
                ~discover_per_file_with(Gathered[k], call.world.envx).ok

EmittedLevel(level) ==
    \E k \in 1..Len(ret.stderr) :
        ret.stderr[k][1] = "problem" /\ ret.stderr[k][2].level = level
ReadFailed == \E k \in 1..Len(ret.results) : ~ret.results[k][2].ok

\* C12: the exit code is 2 for a usage or configuration error and for nothing
\* else; otherwise it is 1 when an error was emitted (an error-level
\* diagnostic or a file that could not be read) or, in strict mode, a warning
\* was emitted, and 0 when neither: a strict run with only warnings exits 1.
C12_ExitCodeOneForStrictWarnings ==
    Exited =>
        /\ (UsageError \/ ConfigError) => ret.exit = Some(2)
        /\ ~(UsageError \/ ConfigError) =>
              ret.exit =
                  IF \/ EmittedLevel("Error") \/ ReadFailed
                     \/ call.cli.strict /\ EmittedLevel("Warning")
                  THEN Some(1) ELSE Some(0)

LintedAny == ret.collected # <<>> \/ ret.results # <<>>
EmittedDiagnostic ==
    \E k \in 1..Len(ret.stderr) : ret.stderr[k][1] \in {"problem", "path"}

\* C13: in every state of a run whose global config fails to load or in which
\* the config of a gathered file fails to resolve, lint_file has not been
\* called and no diagnostic has been emitted; the run ends with the error
\* reported and exit code 2.
C13_ConfigErrorExcludesLinting ==
    (call.op = "main" /\ ConfigError) =>
        /\ ~LintedAny
        /\ ~EmittedDiagnostic
        /\ pc # "lint"
        /\ Exited =>
              /\ ret.exit = Some(2)
              /\ ret.stderr # <<>>
              /\ ret.stderr[Len(ret.stderr)][1] = "error"

\* C13 witness: per-file discovery; the file walked under d resolved and was
\* accepted for linting before the explicit file's config failed to load.
C13_Witness ==
    /\ Exited /\ ConfigError
    /\ GlobalCfg.ok /\ ~GlobalCfg.some
    /\ ret.files # <<>>
    /\ ret.files[1].path = CliDG
    /\ ret.exit = Some(2)
    /\ ret.collected = <<>>

\* The results of a sequential run over the file list.
SequentialResults ==
    [i \in 1..Len(ret.files) |->
        <<i - 1, lint_file(ret.files[i].path, ret.files[i].cfg, ret.files[i].base_dir,
                           call.world.fs)>>]

Reported == Exited /\ ret.collected # <<>>

\* C14: whatever the order in which the workers finish, the i-th result that
\* is reported is the lint_file result of the i-th file, and the output and
\* the exit code are those of a sequential run over the list.
C14_ResultsInIndexOrder ==
    Reported =>
        /\ ret.results = SequentialResults
        /\ ret.stderr = process_results(ret.files, SequentialResults,
                                        call.cli.no_warnings).stderr
        /\ ret.exit =
              Some(exit_code(
                  process_results(ret.files, SequentialResults,
                                  call.cli.no_warnings).has_error,
                  process_results(ret.files, SequentialResults,
                                  call.cli.no_warnings).has_warning,
                  call.cli.strict))

\* C14 witness: two files with different diagnostics, the second finished
\* first, and the report lists the first file's diagnostics first.
C14_Witness ==
    /\ Reported
    /\ Len(ret.collected) = 2
    /\ ret.collected[1][1] = 1 /\ ret.collected[2][1] = 0
    /\ ret.collected[1][2] # ret.collected[2][2]
    /\ ret.collected[1][2].diagnostics # <<>> /\ ret.collected[2][2].diagnostics # <<>>
    /\ ret.stderr[1] = PathLine(ret.files[1].path)

(***************************************************************************)
(* The document-end rule (rules/document_end.rs).  The receiver is given    *)
(* the parser's events one at a time; ret is the receiver: the index of     *)
(* the next event, the violations and pending_stream_end_violation.  A      *)
(* buffer is a sequence of characters, a span has the start's index, line   *)
(* and column and the end's index.                                          *)
(***************************************************************************)
MISSING_MESSAGE == "missing document end \"...\""
FORBIDDEN_MESSAGE == "found forbidden document end \"...\""

Violation(line, column, message) == [line |-> line, column |-> column, message |-> message]

is_ascii_whitespace(c) == c \in {" ", "\t", "\n", "\r", "\f"}

RECURSIVE trim_ascii(_)
trim_ascii(bytes) ==
    IF bytes # <<>> /\ is_ascii_whitespace(bytes[1]) THEN trim_ascii(Tail(bytes))
    ELSE IF bytes # <<>> /\ is_ascii_whitespace(bytes[Len(bytes)])
    THEN trim_ascii(SubSeq(bytes, 1, Len(bytes) - 1))
    ELSE bytes

classify_document_end_marker_bytes(bytes) ==
    IF trim_ascii(bytes) = <<".", ".", ".">> THEN Some("...")
    ELSE IF trim_ascii(bytes) = <<"-", "-", "-">> THEN Some("---")
    ELSE None

Min(a, b) == IF a < b THEN a ELSE b
Max(a, b) == IF a < b THEN b ELSE a

\* DocumentEndReceiver::marker: ExplicitEnd, DocumentStart or Other.
marker(source, span) ==
    LET start == Min(span.start.index, Len(source))
        end == Min(span.end.index, Len(source))
        slice == IF start < end THEN SubSeq(source, start + 1, end) ELSE <<>>
    IN CASE classify_document_end_marker_bytes(slice) = Some("...") -> "ExplicitEnd"
         [] classify_document_end_marker_bytes(slice) = Some("---") -> "DocumentStart"
         [] OTHER -> "Other"

\* Mutant: a document ended by the next document's `---` is left to the
\* stream end to report.
handle_document_end_defers(self, source, present, span) ==
    IF ~present
    THEN [self EXCEPT !.pending_stream_end_violation = FALSE,
                      !.violations =
                          IF marker(source, span) = "ExplicitEnd"
                          THEN Append(@, Violation(span.start.line, span.start.col + 1,
                                                   FORBIDDEN_MESSAGE))
                          ELSE @]
    ELSE IF marker(source, span) = "ExplicitEnd"
    THEN [self EXCEPT !.pending_stream_end_violation = FALSE]
    ELSE [self EXCEPT !.pending_stream_end_violation = TRUE]

handle_document_end(self, source, present, span) ==
    IF ~present
    THEN [self EXCEPT !.pending_stream_end_violation = FALSE,
                      !.violations =
                          IF marker(source, span) = "ExplicitEnd"
                          THEN Append(@, Violation(span.start.line, span.start.col + 1,
                                                   FORBIDDEN_MESSAGE))
                          ELSE @]
    ELSE IF marker(source, span) = "ExplicitEnd"
    THEN [self EXCEPT !.pending_stream_end_violation = FALSE]
    ELSE IF marker(source, span) = "DocumentStart"
    THEN [self EXCEPT !.pending_stream_end_violation = FALSE,
                      !.violations = Append(@, Violation(span.start.line, 1, MISSING_MESSAGE))]
    ELSE [self EXCEPT !.pending_stream_end_violation = TRUE]

\* usize::saturating_sub(1)
saturating_sub_1(n) == IF n = 0 THEN 0 ELSE n - 1

handle_stream_end(self, present, span) ==
    IF ~present \/ ~self.pending_stream_end_violation THEN self
    ELSE [self EXCEPT !.violations =
                          Append(@, Violation(Max(1, saturating_sub_1(span.start.line)), 1,
                                              MISSING_MESSAGE)),
                      !.pending_stream_end_violation = FALSE]

(***************************************************************************)
(* Inputs of document_end::check: buffers of up to MaxDocs documents, each  *)
(* the line `a`, with or without a `---` line before it and a `...` line    *)
(* after it (a document without `---` follows only an explicit end), and    *)
(* the events the parser emits for them: the DocumentEnd of an explicit     *)
(* end spans the `...`, that of a document ended by the next `---` spans    *)
(* this `---`, that of the last document without `...` is empty at the end  *)
(* of the buffer (tests/rule_document_end.rs).  When the last document has  *)
(* a syntax error the events stop before its end.                           *)
(***************************************************************************)
MaxDocs == 3

DocShapes == [start : BOOLEAN, end : BOOLEAN]
DocLists ==
    {ds \in UNION {[1..n -> DocShapes] : n \in 1..MaxDocs} :
        \A i \in 2..Len(ds) : ~ds[i].start => ds[i - 1].end}

Chars(line) ==
    CASE line = "---" -> <<"-", "-", "-", "\n">>
      [] line = "..." -> <<".", ".", ".", "\n">>
      [] OTHER -> <<line, "\n">>

Span(index, line, col, end) ==
    [start |-> [index |-> index, line |-> line, col |-> col], end |-> [index |-> end]]
Event(type, span, explicit) == [type |-> type, span |-> span, explicit |-> explicit]

\* The buffer and the events of docs[i..], after `source` on `lines` lines.
RECURSIVE parse_docs(_, _, _, _, _)
parse_docs(docs, i, source, lines, events) ==
    IF i > Len(docs)
    THEN [source |-> source,
          events |-> Append(events, Event("StreamEnd",
                                          Span(Len(source), lines + 1, 0, Len(source)),
                                          FALSE))]
    ELSE LET d == docs[i]
             head == IF d.start THEN Chars("---") ELSE <<>>
             text == source \o head \o Chars("a")
             n == lines + (IF d.start THEN 2 ELSE 1)
             opened == events \o <<Event("DocumentStart", Span(Len(source), lines + 1, 0,
                                                               Len(source)), FALSE),
                                   Event("Scalar", Span(Len(source \o head), n, 0,
                                                        Len(source \o head) + 1), FALSE)>>
         IN IF d.end
            THEN parse_docs(docs, i + 1, text \o Chars("..."), n + 1,
                            Append(opened, Event("DocumentEnd",
                                                 Span(Len(text), n + 1, 0, Len(text) + 3),
                                                 TRUE)))
            ELSE IF i < Len(docs)
            THEN parse_docs(docs, i + 1, text, n,
                            Append(opened, Event("DocumentEnd",
                                                 Span(Len(text), n + 1, 0, Len(text) + 3),
                                                 FALSE)))
            ELSE parse_docs(docs, i + 1, text, n,
                            Append(opened, Event("DocumentEnd",
                                                 Span(Len(text), n + 1, 0, Len(text)),
                                                 FALSE)))

\* The events up to the last document's content, where the parser fails.
Truncated(events) ==
    SubSeq(events, 1, CHOOSE k \in 1..Len(events) :
                          /\ events[k].type = "Scalar"
                          /\ \A j \in (k + 1)..Len(events) : events[j].type # "Scalar")

DocumentEndCalls ==
    {[op |-> "document_end::check", buffer |-> parse_docs(ds, 1, <<>>, 0, <<>>).source,
      events |-> IF fails THEN Truncated(parse_docs(ds, 1, <<>>, 0, <<>>).events)
                 ELSE parse_docs(ds, 1, <<>>, 0, <<>>).events,
      present |-> present] :
        ds \in DocLists, fails \in BOOLEAN, present \in BOOLEAN}

InitDocumentEnd ==
    /\ pc = "start"
    /\ call \in DocumentEndCalls
    /\ ret = [next |-> 1, violations |-> <<>>, pending_stream_end_violation |-> FALSE]

Receiving == pc = "start" /\ call.op = "document_end::check" /\ ret.next <= Len(call.events)

\* on_event(Event::DocumentEnd, span)
OnDocumentEnd ==
    /\ Receiving
    /\ call.events[ret.next].type = "DocumentEnd"
    /\ ret' = [handle_document_end(ret, call.buffer, call.present,
                                   call.events[ret.next].span)
                  EXCEPT !.next = @ + 1]
    /\ UNCHANGED <<pc, call>>

\* on_event(Event::StreamEnd, span)
OnStreamEnd ==
    /\ Receiving
    /\ call.events[ret.next].type = "StreamEnd"
    /\ ret' = [handle_stream_end(ret, call.present, call.events[ret.next].span)
                  EXCEPT !.next = @ + 1]
    /\ UNCHANGED <<pc, call>>

\* on_event of any other event
OnOtherEvent ==
    /\ Receiving
    /\ call.events[ret.next].type \notin {"DocumentEnd", "StreamEnd"}
    /\ ret' = [ret EXCEPT !.next = @ + 1]
    /\ UNCHANGED <<pc, call>>

\* parser.load has returned: check returns receiver.violations.
DocumentEndReturn ==
    /\ pc = "start"
    /\ call.op = "document_end::check"
    /\ ret.next > Len(call.events)
    /\ pc' = "done"
    /\ UNCHANGED <<call, ret>>

NextDocumentEnd == OnDocumentEnd \/ OnStreamEnd \/ OnOtherEvent \/ DocumentEndReturn
SpecDocumentEnd == InitDocumentEnd /\ [][NextDocumentEnd]_vars

DocumentEndChecked == pc = "done" /\ call.op = "document_end::check"

\* The DocumentEnd events that do not span an explicit `...`.
UnmarkedEnds ==
    {k \in 1..Len(call.events) :
        call.events[k].type = "DocumentEnd" /\ ~call.events[k].explicit}

QuoteState(in_single, in_double, escaped) ==
    [in_single |-> in_single, in_double |-> in_double, escaped |-> escaped]
QuoteState_default == QuoteState(FALSE, FALSE, FALSE)

\* char::is_whitespace
is_whitespace(ch) == ch \in {" ", "\t", "\n", "\r", "\f"}

\* Mutant: a `#` outside quotes starts a comment wherever it stands.
is_comment_position_anywhere(line, idx) == TRUE

\* `line[..idx].chars().last().is_none_or(char::is_whitespace)`
is_comment_position(line, idx) == idx = 0 \/ is_whitespace(line[idx])

\* find_comment_start from the character at index i - 1 on: the index found
\* and the quote state left behind.
RECURSIVE find_comment_start_from(_, _, _)
find_comment_start_from(line, i, state) ==
    IF i > Len(line) THEN [idx |-> None, state |-> [state EXCEPT !.escaped = FALSE]]
    ELSE IF line[i] = "\\" /\ ~state.in_single
    THEN find_comment_start_from(line, i + 1, [state EXCEPT !.escaped = ~@])
    ELSE IF state.escaped
    THEN find_comment_start_from(line, i + 1, [state EXCEPT !.escaped = FALSE])
    ELSE IF line[i] = "'" /\ ~state.in_double
    THEN find_comment_start_from(line, i + 1, [state EXCEPT !.in_single = ~@])
    ELSE IF line[i] = "\"" /\ ~state.in_single
    THEN find_comment_start_from(line, i + 1, [state EXCEPT !.in_double = ~@])
    ELSE IF /\ line[i] = "#" /\ ~state.in_single /\ ~state.in_double
            /\ is_comment_position(line, i - 1)
    THEN [idx |-> Some(i - 1), state |-> state]
    ELSE find_comment_start_from(line, i + 1, state)

find_comment_start(line, state) == find_comment_start_from(line, 1, state)

(***************************************************************************)
(* Inputs of find_comment_start: every line of up to MaxScanLen characters  *)
(* of `#`, space, both quotes, backslash and a letter, entered outside      *)
(* quotes or inside a quoted scalar left open by the lines before (escaped  *)
(* is never set on entry: it is cleared at the end of a line and at a `#`). *)
(***************************************************************************)
MaxScanLen == 4

ScanChars == {"#", " ", "'", "\"", "\\", "a"}
ScanLines == UNION {[1..n -> ScanChars] : n \in 0..MaxScanLen}
EntryStates ==
    {QuoteState_default, QuoteState(TRUE, FALSE, FALSE), QuoteState(FALSE, TRUE, FALSE)}

FindCommentCalls ==
    {[op |-> "find_comment_start", line |-> l, state |-> st] :
        l \in ScanLines, st \in EntryStates}

InitFindComment == pc = "start" /\ call \in FindCommentCalls /\ ret = <<>>

FindCommentStart ==
    /\ pc = "start"
    /\ call.op = "find_comment_start"
    /\ ret' = find_comment_start(call.line, call.state)
    /\ pc' = "done"
    /\ UNCHANGED call

NextFindComment == FindCommentStart
SpecFindComment == InitFindComment /\ [][NextFindComment]_vars

CommentScanned == pc = "done" /\ call.op = "find_comment_start"

\* The quote state after one more character, were the scan to go on.
QuoteStep(st, ch) ==
    IF ch = "\\" /\ ~st.in_single THEN [st EXCEPT !.escaped = ~@]
    ELSE IF st.escaped THEN [st EXCEPT !.escaped = FALSE]
    ELSE IF ch = "'" /\ ~st.in_double THEN [st EXCEPT !.in_single = ~@]
    ELSE IF ch = "\"" /\ ~st.in_single THEN [st EXCEPT !.in_double = ~@]
    ELSE st

\* The quote state the scanner carries when it comes to the i-th character.
RECURSIVE QuoteStateAt(_)
QuoteStateAt(i) ==
    IF i = 1 THEN call.state ELSE QuoteStep(QuoteStateAt(i - 1), call.line[i - 1])

\* The positions at which a `#` is the start of a comment.
CommentStarts ==
    {i \in 1..Len(call.line) :
        /\ call.line[i] = "#"
        /\ ~QuoteStateAt(i).in_single /\ ~QuoteStateAt(i).in_double
        /\ ~QuoteStateAt(i).escaped
        /\ (i = 1 \/ is_whitespace(call.line[i - 1]))}

\* C18: find_comment_start returns the first `#` of the line that the
\* scanner meets outside single and double quotes, not escaped, and that is
\* the first character of the line or directly follows a whitespace
\* character; it returns None when the line has no such `#`.
C18_CommentStartOutsideQuotesAfterWhitespace ==
    CommentScanned =>
        ret.idx = IF CommentStarts = {} THEN None
                  ELSE Some((CHOOSE i \in CommentStarts : \A j \in CommentStarts : i <= j) - 1)

\* C18 witness: in `a# #` entered outside quotes the first `#` follows a
\* letter and is passed over; the second, after the space, is the start.
C18_Witness ==
    /\ CommentScanned
    /\ call.state = QuoteState_default
    /\ call.line = <<"a", "#", " ", "#">>
    /\ ret.idx = Some(3)

(***************************************************************************)
(* The block-scalar tracker of the comments rule and of the                 *)
(* comments-indentation rule.  The tracker is None, or the state of the     *)
(* block scalar it is in: the indicator's indent and the content indent.    *)
(***************************************************************************)
BlockScalarState(indicator_indent, content_indent) ==
    [indicator_indent |-> indicator_indent, content_indent |-> content_indent]

\* `content.trim().is_empty()`
trim_is_empty(content) == \A k \in 1..Len(content) : is_whitespace(content[k])

\* Mutant: only a line indented less than the indicator ends the block.
consume_line_ends_below(tracker, indent, content) ==
    IF ~IsSome(tracker) THEN [tracker |-> tracker, consumed |-> FALSE]
    ELSE IF trim_is_empty(content) THEN [tracker |-> tracker, consumed |-> TRUE]
    ELSE IF indent < Unwrap(tracker).indicator_indent
    THEN [tracker |-> None, consumed |-> FALSE]
    ELSE [tracker |-> Some(BlockScalarState(
                          Unwrap(tracker).indicator_indent,
                          IF IsSome(Unwrap(tracker).content_indent)
                          THEN Some(Min(Unwrap(Unwrap(tracker).content_indent), indent))
                          ELSE Some(indent))),
          consumed |-> TRUE]

\* comments.rs BlockScalarTracker::consume_line: the tracker after the call
\* and the value returned.
consume_line(tracker, indent, content) ==
    IF ~IsSome(tracker) THEN [tracker |-> tracker, consumed |-> FALSE]
    ELSE IF trim_is_empty(content) THEN [tracker |-> tracker, consumed |-> TRUE]
    ELSE IF IsSome(Unwrap(tracker).content_indent)
    THEN IF indent >= Unwrap(Unwrap(tracker).content_indent)
         THEN [tracker |-> tracker, consumed |-> TRUE]
         ELSE IF indent <= Unwrap(tracker).indicator_indent
         THEN [tracker |-> None, consumed |-> FALSE]
         ELSE [tracker |-> Some(BlockScalarState(
                               Unwrap(tracker).indicator_indent,
                               Some(Min(Unwrap(Unwrap(tracker).content_indent), indent)))),
               consumed |-> TRUE]
    ELSE IF indent > Unwrap(tracker).indicator_indent
    THEN [tracker |-> Some(BlockScalarState(Unwrap(tracker).indicator_indent, Some(indent))),
          consumed |-> TRUE]
    ELSE [tracker |-> None, consumed |-> FALSE]

\* comments_indentation.rs BlockScalarTracker::consume_line
indentation_consume_line(tracker, indent, content) ==
    IF ~IsSome(tracker) THEN [tracker |-> tracker, consumed |-> FALSE]
    ELSE IF trim_is_empty(content) THEN [tracker |-> tracker, consumed |-> TRUE]
    ELSE IF /\ IsSome(Unwrap(tracker).content_indent)
            /\ indent >= Unwrap(Unwrap(tracker).content_indent)
    THEN [tracker |-> tracker, consumed |-> TRUE]
    ELSE IF indent <= Unwrap(tracker).indicator_indent
    THEN [tracker |-> None, consumed |-> FALSE]
    ELSE [tracker |-> Some(BlockScalarState(
                          Unwrap(tracker).indicator_indent,
                          Some(IF IsSome(Unwrap(tracker).content_indent)
                               THEN Min(Unwrap(Unwrap(tracker).content_indent), indent)
                               ELSE indent))),
          consumed |-> TRUE]

(***************************************************************************)
(* Inputs of consume_line: the tracker as observe_indicator leaves it, for  *)
(* an indicator indented by up to MaxIndent, then up to MaxTrackLines       *)
(* lines, each indented by up to MaxIndent and empty, a carriage return or  *)
(* text.  ret holds the tracker, the line of the last call, the value it    *)
(* returned and the tracker it was called on.                               *)
(***************************************************************************)
MaxIndent == 3
MaxTrackLines == 3

TrackContents == {<<>>, <<"\r">>, <<"a">>}

TrackerCalls ==
    {[op |-> "consume_line", rule |-> r, indicator_indent |-> i] :
        r \in {"comments", "comments-indentation"}, i \in 0..MaxIndent}

InitTracker ==
    /\ pc = "start"
    /\ call \in TrackerCalls
    /\ ret = [tracker |-> Some(BlockScalarState(call.indicator_indent, None)),
              before |-> None, line |-> [indent |-> 0, content |-> <<>>],
              consumed |-> FALSE, n |-> 0]

tracked(before, line, result, n) ==
    [tracker |-> result.tracker, before |-> before, line |-> line,
     consumed |-> result.consumed, n |-> n]

\* comments::check calls block_tracker.consume_line on the next line.
CommentsConsumeLine ==
    /\ pc = "start"
    /\ call.op = "consume_line" /\ call.rule = "comments"
    /\ ret.n < MaxTrackLines
    /\ \E indent \in 0..MaxIndent, content \in TrackContents :
          ret' = tracked(ret.tracker, [indent |-> indent, content |-> content],
                         consume_line(ret.tracker, indent, content), ret.n + 1)
    /\ UNCHANGED <<pc, call>>

\* comments_indentation::check calls block_tracker.consume_line on the next line.
IndentationConsumeLine ==
    /\ pc = "start"
    /\ call.op = "consume_line" /\ call.rule = "comments-indentation"
    /\ ret.n < MaxTrackLines
    /\ \E indent \in 0..MaxIndent, content \in TrackContents :
          ret' = tracked(ret.tracker, [indent |-> indent, content |-> content],
                         indentation_consume_line(ret.tracker, indent, content), ret.n + 1)
    /\ UNCHANGED <<pc, call>>

NextTracker == CommentsConsumeLine \/ IndentationConsumeLine
SpecTracker == InitTracker /\ [][NextTracker]_vars

\* consume_line has just been called on an active tracker.
ConsumedWhileActive == call.op = "consume_line" /\ ret.n > 0 /\ IsSome(ret.before)
Blank == trim_is_empty(ret.line.content)

\* C19: called on an active tracker, consume_line consumes a blank line and
\* leaves the tracker as it is; a non-blank line indented no more than the
\* indicator ends the block and is not consumed; any other non-blank line is
\* consumed, the indicator's indent stays, the content indent is the line's
\* indent if it was not set and is not greater than before if it was, and it
\* is greater than the indicator's indent.
C19_BlockBodyConsumedUntilDedent ==
    ConsumedWhileActive =>
        /\ Blank => (ret.consumed /\ ret.tracker = ret.before)
        /\ (~Blank /\ ret.line.indent <= Unwrap(ret.before).indicator_indent) =>
              (~ret.consumed /\ ret.tracker = None)
        /\ (~Blank /\ ret.line.indent > Unwrap(ret.before).indicator_indent) =>
              /\ ret.consumed
              /\ IsSome(ret.tracker)
              /\ Unwrap(ret.tracker).indicator_indent = Unwrap(ret.before).indicator_indent
              /\ IsSome(Unwrap(ret.tracker).content_indent)
              /\ Unwrap(Unwrap(ret.tracker).content_indent)
                    > Unwrap(ret.tracker).indicator_indent
              /\ ~IsSome(Unwrap(ret.before).content_indent) =>
                    Unwrap(ret.tracker).content_indent = Some(ret.line.indent)
              /\ IsSome(Unwrap(ret.before).content_indent) =>
                    Unwrap(Unwrap(ret.tracker).content_indent)
                        <= Unwrap(Unwrap(ret.before).content_indent)

\* C19 witness: a body line indented less than the content indent, more than
\* the indicator, is consumed and narrows the content indent.
C19_Witness ==
    /\ ConsumedWhileActive /\ ret.consumed /\ ~Blank
    /\ IsSome(Unwrap(ret.before).content_indent)
    /\ ret.line.indent < Unwrap(Unwrap(ret.before).content_indent)
    /\ Unwrap(ret.tracker).content_indent = Some(ret.line.indent)

(***************************************************************************)
(* comments::check, one line of the buffer at a time.  ret is the state of  *)
(* the loop: the index of the next line, the violations, the quote state,   *)
(* the block tracker, and of the last iteration whether the line was        *)
(* consumed as block-scalar body and the comment start found on it.         *)
(***************************************************************************)
RECURSIVE leading_indent_width(_)
leading_indent_width(line) ==
    IF line # <<>> /\ line[1] \in {" ", "\t"} THEN 1 + leading_indent_width(Tail(line))
    ELSE 0

RECURSIVE trim_end(_)
trim_end(str) ==
    IF str # <<>> /\ is_whitespace(str[Len(str)]) THEN trim_end(SubSeq(str, 1, Len(str) - 1))
    ELSE str

\* `!line[..comment_start].trim().is_empty()`
is_inline_comment(line, comment_start) == ~trim_is_empty(SubSeq(line, 1, comment_start))

inline_spacing_width(line, comment_start) ==
    comment_start - Len(trim_end(SubSeq(line, 1, comment_start)))

RECURSIVE skip_hashes(_)
skip_hashes(slice) ==
    IF slice # <<>> /\ slice[1] = "#" THEN 1 + skip_hashes(Tail(slice)) ELSE 0

column_at(line, byte_idx) == Len(SubSeq(line, 1, byte_idx)) + 1

RECURSIVE strip_trailing_comment_from(_, _, _)
strip_trailing_comment_from(content, i, state) ==
    IF i > Len(content) THEN trim_end(content)
    ELSE IF content[i] = "\\" /\ ~state.in_single
    THEN strip_trailing_comment_from(content, i + 1, [state EXCEPT !.escaped = ~@])
    ELSE IF state.escaped
    THEN strip_trailing_comment_from(content, i + 1, [state EXCEPT !.escaped = FALSE])
    ELSE IF content[i] = "'" /\ ~state.in_double
    THEN strip_trailing_comment_from(content, i + 1, [state EXCEPT !.in_single = ~@])
    ELSE IF content[i] = "\"" /\ ~state.in_single
    THEN strip_trailing_comment_from(content, i + 1, [state EXCEPT !.in_double = ~@])
    ELSE IF content[i] = "#" /\ ~state.in_single /\ ~state.in_double
    THEN trim_end(SubSeq(content, 1, i - 1))
    ELSE strip_trailing_comment_from(content, i + 1, state)

strip_trailing_comment_for_block(content) ==
    strip_trailing_comment_from(content, 1, QuoteState_default)

ends_with(str, suffix) ==
    /\ Len(suffix) <= Len(str)
    /\ SubSeq(str, Len(str) - Len(suffix) + 1, Len(str)) = suffix

is_block_scalar_indicator(content) ==
    /\ content # <<>>
    /\ \E suffix \in {<<"|", "-">>, <<"|", "+">>, <<"|">>, <<">", "-">>, <<">", "+">>, <<">">>} :
          ends_with(trim_end(content), suffix)

observe_indicator(tracker, indent, content) ==
    IF is_block_scalar_indicator(trim_end(strip_trailing_comment_for_block(content)))
    THEN Some(BlockScalarState(indent, None))
    ELSE tracker

TooFewSpaces(required) == <<"too few spaces before comment: expected ", required>>
MissingStartingSpace == "missing starting space in comment"

\* The `min-spaces-from-content` block of the loop body.
spacing_violations(violations, line_idx, line, comment_start, cfg) ==
    IF /\ IsSome(cfg.min_spaces_from_content)
       /\ is_inline_comment(line, comment_start)
       /\ inline_spacing_width(line, comment_start) < Unwrap(cfg.min_spaces_from_content)
    THEN Append(violations,
                Violation(line_idx + 1, column_at(line, comment_start),
                          TooFewSpaces(Unwrap(cfg.min_spaces_from_content))))
    ELSE violations

\* The loop body from `if !cfg.require_starting_space()` on: st is the state
\* with the spacing violations pushed.
starting_space(st, line_idx, line, indent, comment_start, after_hash_idx, cfg) ==
    IF ~cfg.require_starting_space THEN st
    ELSE IF after_hash_idx >= Len(line) THEN st
    ELSE IF /\ cfg.ignore_shebangs /\ line_idx = 0 /\ comment_start = 0
            /\ line[after_hash_idx + 1] = "!"
    THEN st
    ELSE [st EXCEPT
            !.violations =
                IF line[after_hash_idx + 1] # " "
                THEN Append(@, Violation(line_idx + 1, column_at(line, after_hash_idx),
                                         MissingStartingSpace))
                ELSE @,
            !.block_tracker =
                observe_indicator(@, indent, SubSeq(line, indent + 1, Len(line)))]

\* The loop body once the line is known not to be block-scalar body, with
\* what find_comment_start returned.
scanned_line(st, line_idx, line, indent, found, cfg) ==
    IF ~IsSome(found.idx)
    THEN [st EXCEPT !.quote_state = found.state,
                    !.comment_start = None,
                    !.block_tracker =
                        observe_indicator(@, indent, SubSeq(line, indent + 1, Len(line)))]
    ELSE starting_space(
             [st EXCEPT !.quote_state = found.state,
                        !.comment_start = found.idx,
                        !.violations = spacing_violations(@, line_idx, line,
                                                          Unwrap(found.idx), cfg)],
             line_idx, line, indent, Unwrap(found.idx),
             Unwrap(found.idx)
                 + skip_hashes(SubSeq(line, Unwrap(found.idx) + 1, Len(line))),
             cfg)

\* The loop body with what consume_line returned.
consumed_or_scanned(st, line_idx, line, indent, consumed, cfg) ==
    IF consumed.consumed
    THEN [st EXCEPT !.block_tracker = consumed.tracker, !.consumed = TRUE,
                    !.comment_start = None]
    ELSE scanned_line([st EXCEPT !.block_tracker = consumed.tracker, !.consumed = FALSE],
                      line_idx, line, indent, find_comment_start(line, st.quote_state), cfg)

check_line(st, line_idx, line, cfg) ==
    consumed_or_scanned(
        st, line_idx, line, leading_indent_width(line),
        consume_line(st.block_tracker, leading_indent_width(line),
                     SubSeq(line, leading_indent_width(line) + 1, Len(line))),
        cfg)

(***************************************************************************)
(* Inputs of comments::check: buffers of up to MaxBufLines lines out of     *)
(* comment lines with every kind of character after the `#`s, inline        *)
(* comments, a block scalar indicator, text and the empty line, under       *)
(* every setting of the options.                                            *)
(***************************************************************************)
MaxBufLines == 2

CommentLines ==
    {<<>>, <<"a">>, <<"#">>, <<"#", "a">>, <<"#", " ", "a">>, <<"#", "\t", "a">>,
     <<"#", "!", "a">>, <<"#", "#", "a">>, <<"#", "#", " ", "a">>, <<"#", "#", "!">>,
     <<"a", " ", "#", "b">>, <<"a", " ", " ", "#", " ", "b">>, <<" ", "#", "!">>,
     <<"a", ":", " ", "|">>, <<" ", "#", "a">>, <<"a", "|", " ", "#">>}

CommentsCalls ==
    {[op |-> "comments::check", buffer |-> b,
      cfg |-> [require_starting_space |-> rs, ignore_shebangs |-> sh,
               min_spaces_from_content |-> ms]] :
        b \in UNION {[1..n -> CommentLines] : n \in 0..MaxBufLines},
        rs \in BOOLEAN, sh \in BOOLEAN, ms \in {None, Some(2)}}

InitComments ==
    /\ pc = "start"
    /\ call \in CommentsCalls
    /\ ret = [next |-> 1, violations |-> <<>>, quote_state |-> QuoteState_default,
              block_tracker |-> None, consumed |-> FALSE, comment_start |-> None]

\* One iteration of `for (line_idx, line) in buffer.lines().enumerate()`.
CheckLine ==
    /\ pc = "start"
    /\ call.op = "comments::check"
    /\ ret.next <= Len(call.buffer)
    /\ ret' = [check_line(ret, ret.next - 1, call.buffer[ret.next], call.cfg)
                  EXCEPT !.next = @ + 1]
    /\ UNCHANGED <<pc, call>>

\* The loop is over: check returns the violations.
CommentsReturn ==
    /\ pc = "start"
    /\ call.op = "comments::check"
    /\ ret.next > Len(call.buffer)
    /\ pc' = "done"
    /\ UNCHANGED <<call, ret>>

NextComments == CheckLine \/ CommentsReturn
SpecComments == InitComments /\ [][NextComments]_vars

\* The last iteration found a comment on a line outside block scalars.
CommentFound ==
    /\ call.op = "comments::check" /\ ret.next > 1
    /\ ~ret.consumed /\ IsSome(ret.comment_start)
LastLine == call.buffer[ret.next - 1]

\* The index (from 0) of the first character after the run of `#`s.
AfterHashes ==
    CHOOSE j \in (Unwrap(ret.comment_start) + 1)..Len(LastLine) :
        /\ \A k \in (Unwrap(ret.comment_start) + 1)..j : LastLine[k] = "#"
        /\ (j = Len(LastLine) \/ LastLine[j + 1] # "#")

MissingSpaceReportedAt(column) ==
    \E k \in 1..Len(ret.violations) :
        ret.violations[k] = Violation(ret.next - 1, column, MissingStartingSpace)
MissingSpaceReported ==
    \E k \in 1..Len(ret.violations) :
        /\ ret.violations[k].line = ret.next - 1
        /\ ret.violations[k].message = MissingStartingSpace

\* The `!` of a `#!` comment at the very start of the file.
IsShebangBang ==
    /\ ret.next - 1 = 1 /\ ret.comment_start = Some(0) /\ AfterHashes = 1
    /\ LastLine[AfterHashes + 1] = "!"

\* C20: with require-starting-space, a comment is reported with "missing
\* starting space in comment" at the first character after its `#`s exactly
\* when there is such a character and it is neither a space nor a tab nor,
\* with ignore-shebangs, the `!` of a `#!` at the very start of the file; a
\* comment whose `#`s are followed by the end of the line or by whitespace is
\* not reported.
C20_MissingStartingSpaceUnlessWhitespace ==
    (CommentFound /\ call.cfg.require_starting_space) =>
        /\ MissingSpaceReportedAt(AfterHashes + 1) <=>
              /\ AfterHashes < Len(LastLine)
              /\ LastLine[AfterHashes + 1] \notin {" ", "\t"}
              /\ ~(call.cfg.ignore_shebangs /\ IsShebangBang)
        /\ (AfterHashes = Len(LastLine) \/ is_whitespace(LastLine[AfterHashes + 1])) =>
              ~MissingSpaceReported

(***************************************************************************)
(* comments_indentation::check: the first loop classifies the lines of the  *)
(* buffer one at a time, the second loop walks the classified lines.  ret   *)
(* holds the locals of check: block_tracker, lines, the position of each    *)
(* loop, last_comment_indent and diagnostics.                               *)
(***************************************************************************)
INDENTATION_MESSAGE == "comment not indented like content"

IndentationViolation(line, column) == [line |-> line, column |-> column]

LineInfo(indent, kind) == [indent |-> indent, kind |-> kind]

RECURSIVE trim_start_blanks(_)
trim_start_blanks(content) ==
    IF content # <<>> /\ content[1] \in {" ", "\t"} THEN trim_start_blanks(Tail(content))
    ELSE content

classify_line_kind(content) ==
    IF trim_start_blanks(content) = <<>> THEN "Empty"
    ELSE IF trim_start_blanks(content)[1] = "#" THEN "Comment"
    ELSE "Other"

leading_whitespace_width(line) == leading_indent_width(line)

RECURSIVE compute_prev_from(_, _, _)
compute_prev_from(lines, i, latest) ==
    IF i > Len(lines) THEN <<>>
    ELSE IF lines[i].kind = "Other"
    THEN <<Some(lines[i].indent)>> \o compute_prev_from(lines, i + 1, Some(lines[i].indent))
    ELSE <<latest>> \o compute_prev_from(lines, i + 1, latest)

compute_prev_content_indents(lines) == compute_prev_from(lines, 1, None)

RECURSIVE compute_next_from(_, _, _)
compute_next_from(lines, i, upcoming) ==
    IF i < 1 THEN <<>>
    ELSE IF lines[i].kind = "Other"
    THEN compute_next_from(lines, i - 1, Some(lines[i].indent)) \o <<Some(lines[i].indent)>>
    ELSE compute_next_from(lines, i - 1, upcoming) \o <<upcoming>>

compute_next_content_indents(lines) == compute_next_from(lines, Len(lines), None)

unwrap_or(opt, default) == IF IsSome(opt) THEN Unwrap(opt) ELSE default

reference_indent_without_active(last_comment_indent, prev_indent, next_indent) ==
    Max(prev_indent, next_indent)

\* `last_comment_indent.unwrap_or_else(|| prev_indent.max(next_indent))`
reference_indent(last_comment_indent, prev_indent, next_indent) ==
    unwrap_or(last_comment_indent, Max(prev_indent, next_indent))

\* The first loop's body for one line.
classify_line(st, line, consumed) ==
    [st EXCEPT
        !.lines = Append(@, LineInfo(leading_whitespace_width(line),
                                     IF consumed.consumed THEN "Other"
                                     ELSE classify_line_kind(
                                              SubSeq(line, leading_whitespace_width(line) + 1,
                                                     Len(line))))),
        !.block_tracker =
            observe_indicator(consumed.tracker, leading_whitespace_width(line),
                              SubSeq(line, leading_whitespace_width(line) + 1, Len(line)))]

\* The second loop's body for the line at idx (from 0).
check_comment_line(st, idx, line, prev_indent, next_indent) ==
    IF line.kind = "Comment"
    THEN [st EXCEPT
            !.diagnostics =
                IF /\ line.indent # reference_indent(st.last_comment_indent,
                                                     prev_indent, next_indent)
                   /\ line.indent # next_indent
                THEN Append(@, IndentationViolation(idx + 1, line.indent + 1))
                ELSE @,
            !.last_comment_indent = Some(line.indent)]
    ELSE IF line.kind = "Other"
    THEN [st EXCEPT !.last_comment_indent = None]
    ELSE st

(***************************************************************************)
(* Inputs of comments_indentation::check: buffers of up to MaxCiLines       *)
(* lines out of content, comments and blank lines at several indents,       *)
(* block scalar indicators, and body text that ends with an indicator.      *)
(***************************************************************************)
MaxCiLines == 3

CiLines ==
    {<<>>, <<"a">>, <<" ", "a">>, <<" ", " ", "a">>,
     <<"#">>, <<" ", "#">>, <<" ", " ", "#">>,
     <<"a", "|">>, <<" ", "a", ">", "-">>, <<" ", " ", "x", "|">>,
     <<"a", "|", " ", "#">>}

CommentsIndentationCalls ==
    {[op |-> "comments_indentation::check", buffer |-> b] :
        b \in UNION {[1..n -> CiLines] : n \in 0..MaxCiLines}}

InitCommentsIndentation ==
    /\ pc = "classify"
    /\ call \in CommentsIndentationCalls
    /\ ret = [block_tracker |-> None, lines |-> <<>>, idx |-> 0,
              last_comment_indent |-> None, diagnostics |-> <<>>]

\* `if buffer.is_empty() { return diagnostics; }`
EmptyBuffer ==
    /\ pc = "classify"
    /\ call.op = "comments_indentation::check"
    /\ call.buffer = <<>>
    /\ pc' = "done"
    /\ UNCHANGED <<call, ret>>

\* One iteration of `for raw_line in buffer.lines()`.
ClassifyLine ==
    /\ pc = "classify"
    /\ call.op = "comments_indentation::check"
    /\ Len(ret.lines) < Len(call.buffer)
    /\ ret' = classify_line(
                  ret, call.buffer[Len(ret.lines) + 1],
                  indentation_consume_line(
                      ret.block_tracker,
                      leading_whitespace_width(call.buffer[Len(ret.lines) + 1]),
                      SubSeq(call.buffer[Len(ret.lines) + 1],
                             leading_whitespace_width(call.buffer[Len(ret.lines) + 1]) + 1,
                             Len(call.buffer[Len(ret.lines) + 1]))))
    /\ UNCHANGED <<pc, call>>

\* The first loop is over.
ClassifyDone ==
    /\ pc = "classify"
    /\ call.op = "comments_indentation::check"
    /\ call.buffer # <<>>
    /\ Len(ret.lines) = Len(call.buffer)
    /\ pc' = "check"
    /\ UNCHANGED <<call, ret>>

\* One iteration of `for (idx, line) in lines.iter().enumerate()`.
CheckCommentLine ==
    /\ pc = "check"
    /\ ret.idx < Len(ret.lines)
    /\ ret' = [check_comment_line(
                   ret, ret.idx, ret.lines[ret.idx + 1],
                   unwrap_or(compute_prev_content_indents(ret.lines)[ret.idx + 1], 0),
                   unwrap_or(compute_next_content_indents(ret.lines)[ret.idx + 1], 0))
                 EXCEPT !.idx = @ + 1]
    /\ UNCHANGED <<pc, call>>

\* The second loop is over: check returns the diagnostics.
CommentsIndentationReturn ==
    /\ pc = "check"
    /\ ret.idx = Len(ret.lines)
    /\ pc' = "done"
    /\ UNCHANGED <<call, ret>>

NextCommentsIndentation ==
    \/ EmptyBuffer
    \/ ClassifyLine
    \/ ClassifyDone
    \/ CheckCommentLine
    \/ CommentsIndentationReturn

SpecCommentsIndentation == InitCommentsIndentation /\ [][NextCommentsIndentation]_vars

\* check has returned.
IndentationChecked == call.op = "comments_indentation::check" /\ pc = "done"

CommentOnly(k) == ret.lines[k].kind = "Comment"

\* The indent of the nearest content line before (after) line k, 0 without one.
PrevContentIndent(k) ==
    IF \E j \in 1..(k - 1) : ret.lines[j].kind = "Other"
    THEN ret.lines[CHOOSE j \in 1..(k - 1) :
                      /\ ret.lines[j].kind = "Other"
                      /\ \A m \in (j + 1)..(k - 1) : ret.lines[m].kind # "Other"].indent
    ELSE 0
NextContentIndent(k) ==
    IF \E j \in (k + 1)..Len(ret.lines) : ret.lines[j].kind = "Other"
    THEN ret.lines[CHOOSE j \in (k + 1)..Len(ret.lines) :
                      /\ ret.lines[j].kind = "Other"
                      /\ \A m \in (k + 1)..(j - 1) : ret.lines[m].kind # "Other"].indent
    ELSE 0

\* Line k follows a comment line with nothing but blank lines in between:
\* that comment's indent is the active comment indent.
HasActive(k) ==
    \E j \in 1..(k - 1) :
        /\ ret.lines[j].kind = "Comment"
        /\ \A m \in (j + 1)..(k - 1) : ret.lines[m].kind = "Empty"
ActiveIndent(k) ==
    ret.lines[CHOOSE j \in 1..(k - 1) :
                 /\ ret.lines[j].kind = "Comment"
                 /\ \A m \in (j + 1)..(k - 1) : ret.lines[m].kind = "Empty"].indent

IndentationReported(k) ==
    \E d \in 1..Len(ret.diagnostics) :
        ret.diagnostics[d] = IndentationViolation(k, ret.lines[k].indent + 1)
IndentationReportedOnLine(k) ==
    \E d \in 1..Len(ret.diagnostics) : ret.diagnostics[d].line = k

\* C21 as stated: a comment-only line is accepted when its indent is that of
\* the previous or of the next content line, or, when a preceding comment
\* line has set an active comment indent, when it is the active indent or
\* that of the next content line; every other comment-only line is reported
\* at column indent + 1.
C21_CommentAtPrevOrNextIndentAccepted ==
    IndentationChecked =>
        \A k \in 1..Len(ret.lines) :
            CommentOnly(k) =>
                (~IndentationReportedOnLine(k) <=>
                    IF HasActive(k)
                    THEN ret.lines[k].indent \in {ActiveIndent(k), NextContentIndent(k)}
                    ELSE ret.lines[k].indent \in {PrevContentIndent(k), NextContentIndent(k)})

\* C21, amended: a comment-only line is accepted when its indent is that of
\* the next content line or is the reference indent, which is the active
\* comment indent when a preceding comment line has set one and otherwise
\* the larger of the previous and the next content line's indents; every
\* other comment-only line is reported, once, at column indent + 1.
C21_CommentAtReferenceOrNextIndentAccepted ==
    IndentationChecked =>
        \A k \in 1..Len(ret.lines) :
            CommentOnly(k) =>
                /\ ~IndentationReportedOnLine(k) <=>
                      IF HasActive(k)
                      THEN ret.lines[k].indent \in {ActiveIndent(k), NextContentIndent(k)}
                      ELSE ret.lines[k].indent \in
                               {Max(PrevContentIndent(k), NextContentIndent(k)),
                                NextContentIndent(k)}
                /\ IndentationReportedOnLine(k) => IndentationReported(k)

\* A comment at the active indent of the comment before it, which is neither
\* the previous nor the next content line's indent, is accepted, and a
\* comment at the previous content line's indent is reported.
C21_Witness ==
    /\ IndentationChecked
    /\ \E k \in 1..Len(ret.lines) :
          /\ CommentOnly(k) /\ HasActive(k)
          /\ ret.lines[k].indent = ActiveIndent(k)
          /\ ret.lines[k].indent \notin {PrevContentIndent(k), NextContentIndent(k)}
          /\ ~IndentationReportedOnLine(k)
    /\ \E k \in 1..Len(ret.lines) :
          /\ CommentOnly(k) /\ ~HasActive(k)
          /\ IndentationReported(k)

\* The line the first loop is about to take, and what consume_line says of it.
ClassifiedLine == call.buffer[Len(ret.lines) + 1]
ConsumedAsBody ==
    indentation_consume_line(
        ret.block_tracker, leading_whitespace_width(ClassifiedLine),
        SubSeq(ClassifiedLine, leading_whitespace_width(ClassifiedLine) + 1,
               Len(ClassifiedLine))).consumed

\* C30: in comments_indentation::check a line consumed as block-scalar body
\* does not start a new block scalar: after the iteration the tracker is
\* still in the same block, with the indicator indent it had before, also
\* when the body text ends with `|` or `>`.
C30_ConsumedLineKeepsIndicatorIndent ==
    [][(/\ call.op = "comments_indentation::check"
        /\ pc = "classify"
        /\ Len(ret.lines) < Len(call.buffer)
        /\ ConsumedAsBody
        /\ Len(ret'.lines) = Len(ret.lines) + 1)
       => /\ IsSome(ret'.block_tracker)
          /\ Unwrap(ret'.block_tracker).indicator_indent
                = Unwrap(ret.block_tracker).indicator_indent]_vars

\* The last iteration of comments::check took a line that is not
\* block-scalar body and that ends, once a trailing comment is stripped,
\* with a block scalar indicator.
IndicatorLineTaken ==
    /\ call.op = "comments::check" /\ ret.next > 1
    /\ ~ret.consumed
    /\ is_block_scalar_indicator(
           strip_trailing_comment_for_block(
               SubSeq(LastLine, leading_indent_width(LastLine) + 1, Len(LastLine))))

\* C29: in comments::check every line that is not consumed as block-scalar
\* body and whose content, without its trailing comment, ends with a block
\* scalar indicator leaves the tracker inside a block scalar that starts at
\* the line's indent, under every setting of the options and whatever the
\* trailing comment looks like.
C29_IndicatorLineStartsBlockScalar ==
    IndicatorLineTaken =>
        ret.block_tracker = Some(BlockScalarState(leading_indent_width(LastLine), None))

(***************************************************************************)
(* The brackets rule.  chars is the buffer as a sequence of characters,     *)
(* indexed from 0 as in the code through At; the buffers are ASCII, so the  *)
(* byte offset of a character is its index.  scalar_ranges are the spans    *)
(* of the parser's Scalar events, as [start, end) index pairs.              *)
(***************************************************************************)
FORBIDDEN_FLOW_SEQUENCE == "forbidden flow sequence"
TOO_FEW_SPACES_INSIDE == "too few spaces inside brackets"
TOO_MANY_SPACES_INSIDE == "too many spaces inside brackets"
TOO_FEW_SPACES_INSIDE_EMPTY == "too few spaces inside empty brackets"
TOO_MANY_SPACES_INSIDE_EMPTY == "too many spaces inside empty brackets"

At(chars, idx) == chars[idx + 1]

BracketsConfig(forbid, min_spaces_inside, max_spaces_inside, min_spaces_inside_empty, max_spaces_inside_empty) ==
    [forbid |-> forbid,
     min_spaces_inside |-> min_spaces_inside,
     max_spaces_inside |-> max_spaces_inside,
     min_spaces_inside_empty |-> min_spaces_inside_empty,
     max_spaces_inside_empty |-> max_spaces_inside_empty]

effective_min_empty(cfg) ==
    IF cfg.min_spaces_inside_empty >= 0 THEN cfg.min_spaces_inside_empty
    ELSE cfg.min_spaces_inside

effective_max_empty(cfg) ==
    IF cfg.max_spaces_inside_empty >= 0 THEN cfg.max_spaces_inside_empty
    ELSE cfg.max_spaces_inside

SequenceState(is_empty) == [is_empty |-> is_empty]

RECURSIVE build_line_starts_from(_, _)
build_line_starts_from(chars, idx) ==
    IF idx >= Len(chars) THEN <<>>
    ELSE IF At(chars, idx) = "\n"
    THEN <<idx + 1>> \o build_line_starts_from(chars, idx + 1)
    ELSE IF At(chars, idx) = "\r"
    THEN IF idx + 1 < Len(chars) /\ At(chars, idx + 1) = "\n"
         THEN <<idx + 2>> \o build_line_starts_from(chars, idx + 2)
         ELSE <<idx + 1>> \o build_line_starts_from(chars, idx + 1)
    ELSE build_line_starts_from(chars, idx + 1)

build_line_starts(chars) == <<0>> \o build_line_starts_from(chars, 0)

\* The binary search of line_and_column: `left` ends at the last line start
\* that is not after byte_idx.
RECURSIVE line_search(_, _, _, _)
line_search(line_starts, byte_idx, left, right) ==
    IF left + 1 < right
    THEN IF At(line_starts, (left + right) \div 2) <= byte_idx
         THEN line_search(line_starts, byte_idx, (left + right) \div 2, right)
         ELSE line_search(line_starts, byte_idx, left, (left + right) \div 2)
    ELSE left

line_and_column(line_starts, byte_idx) ==
    [line |-> line_search(line_starts, byte_idx, 0, Len(line_starts)) + 1,
     column |-> byte_idx
                  - At(line_starts, line_search(line_starts, byte_idx, 0, Len(line_starts)))
                  + 1]

RECURSIVE skip_comment_from(_, _)
skip_comment_from(chars, idx) ==
    IF idx >= Len(chars) THEN idx
    ELSE IF At(chars, idx) = "\n" THEN idx
    ELSE IF At(chars, idx) = "\r"
    THEN IF idx + 1 < Len(chars) /\ At(chars, idx + 1) = "\n" THEN idx + 1 ELSE idx
    ELSE skip_comment_from(chars, idx + 1)

skip_comment(chars, idx) == skip_comment_from(chars, idx + 1)

RECURSIVE next_significant_from(_, _)
next_significant_from(chars, idx) ==
    IF idx >= Len(chars) THEN None
    ELSE IF At(chars, idx) \in {" ", "\t", "\n"} THEN next_significant_from(chars, idx + 1)
    ELSE IF At(chars, idx) = "\r"
    THEN IF idx + 1 < Len(chars) /\ At(chars, idx + 1) = "\n"
         THEN next_significant_from(chars, idx + 2)
         ELSE next_significant_from(chars, idx + 1)
    ELSE IF At(chars, idx) = "#"
    THEN IF skip_comment(chars, idx) >= Len(chars)
         THEN next_significant_from(chars, skip_comment(chars, idx))
         ELSE next_significant_from(chars, skip_comment(chars, idx) + 1)
    ELSE Some(idx)

next_significant_index(chars, open_idx) == next_significant_from(chars, open_idx + 1)

\* Mutant: a `[` counts as empty only when `]` follows it directly.
next_is_close_adjacent(chars, idx) ==
    idx + 1 < Len(chars) /\ At(chars, idx + 1) = "]"

\* `matches!(next_significant.map(|j| chars[j].1), Some(']'))`
next_is_close(chars, idx) ==
    /\ IsSome(next_significant_index(chars, idx))
    /\ At(chars, Unwrap(next_significant_index(chars, idx))) = "]"

AfterSameLine(spaces, next_idx) == [kind |-> "SameLine", spaces |-> spaces, next_idx |-> next_idx]
AfterIgnored == [kind |-> "Ignored"]

RECURSIVE spaces_after_open_from(_, _, _)
spaces_after_open_from(chars, idx, spaces) ==
    IF idx >= Len(chars) THEN AfterIgnored
    ELSE IF At(chars, idx) \in {" ", "\t"} THEN spaces_after_open_from(chars, idx + 1, spaces + 1)
    ELSE IF At(chars, idx) \in {"\n", "\r", "#"} THEN AfterIgnored
    ELSE AfterSameLine(spaces, idx)

compute_spaces_after_open(chars, open_idx) == spaces_after_open_from(chars, open_idx + 1, 0)

BeforeSameLine(spaces) == [kind |-> "SameLine", spaces |-> spaces]
BeforeEmpty == [kind |-> "Empty"]
BeforeIgnored == [kind |-> "Ignored"]

\* idx is the loop variable before `idx -= 1`.
RECURSIVE spaces_before_close_from(_, _, _)
spaces_before_close_from(chars, idx, spaces) ==
    IF idx <= 0 THEN BeforeIgnored
    ELSE IF At(chars, idx - 1) \in {" ", "\t"}
    THEN spaces_before_close_from(chars, idx - 1, spaces + 1)
    ELSE IF At(chars, idx - 1) \in {"\n", "\r", "#"} THEN BeforeIgnored
    ELSE IF At(chars, idx - 1) = "[" THEN BeforeEmpty
    ELSE BeforeSameLine(spaces)

compute_spaces_before_close(chars, close_idx) ==
    IF close_idx = 0 THEN BeforeIgnored
    ELSE spaces_before_close_from(chars, close_idx, 0)

SpacingMessages(min, max) == [min |-> min, max |-> max]

\* A pair of optional violations, pushed in this order.
push_if(violations, cond, violation) ==
    IF cond THEN Append(violations, violation) ELSE violations

record_after_spacing(min, max, spaces, line, next_column, messages, violations) ==
    push_if(push_if(violations, max >= 0 /\ spaces > max,
                    Violation(line, Max(1, saturating_sub_1(next_column)), messages.max)),
            min >= 0 /\ spaces < min,
            Violation(line, next_column, messages.min))

\* handle_open after the forbid policy: state is the SequenceState built from
\* next_significant, after is what compute_spaces_after_open returned.
open_spacing(cfg, chars, line_starts, st, skip_open_check, is_empty, after) ==
    IF skip_open_check \/ after.kind # "SameLine"
    THEN [st EXCEPT !.stack = Append(@, SequenceState(is_empty))]
    ELSE IF is_empty /\ At(chars, after.next_idx) = "]"
    THEN [st EXCEPT
            !.violations =
                record_after_spacing(
                    effective_min_empty(cfg), effective_max_empty(cfg), after.spaces,
                    line_and_column(line_starts, after.next_idx).line,
                    line_and_column(line_starts, after.next_idx).column,
                    SpacingMessages(TOO_FEW_SPACES_INSIDE_EMPTY, TOO_MANY_SPACES_INSIDE_EMPTY),
                    @),
            !.stack = Append(@, SequenceState(is_empty))]
    ELSE [st EXCEPT
            !.violations =
                record_after_spacing(
                    cfg.min_spaces_inside, cfg.max_spaces_inside, after.spaces,
                    line_and_column(line_starts, after.next_idx).line,
                    line_and_column(line_starts, after.next_idx).column,
                    SpacingMessages(TOO_FEW_SPACES_INSIDE, TOO_MANY_SPACES_INSIDE),
                    @),
            !.stack = Append(@, SequenceState(FALSE))]

handle_open(cfg, chars, idx, line_starts, st) ==
    IF cfg.forbid = "All" \/ (cfg.forbid = "NonEmpty" /\ ~next_is_close(chars, idx))
    THEN open_spacing(
             cfg, chars, line_starts,
             [st EXCEPT !.violations =
                 Append(@, Violation(line_and_column(line_starts, idx).line,
                                     line_and_column(line_starts, idx).column + 1,
                                     FORBIDDEN_FLOW_SEQUENCE))],
             TRUE, next_is_close(chars, idx), compute_spaces_after_open(chars, idx))
    ELSE open_spacing(cfg, chars, line_starts, st, FALSE, next_is_close(chars, idx),
                      compute_spaces_after_open(chars, idx))

\* handle_close once the state is popped and is not empty.
close_spacing(cfg, chars, idx, line_starts, st, before) ==
    IF before.kind # "SameLine" THEN st
    ELSE [st EXCEPT !.violations =
            push_if(push_if(@, /\ cfg.max_spaces_inside >= 0
                               /\ before.spaces > cfg.max_spaces_inside,
                            Violation(line_and_column(line_starts, idx).line,
                                      Max(1, saturating_sub_1(
                                                 line_and_column(line_starts, idx).column)),
                                      TOO_MANY_SPACES_INSIDE)),
                    cfg.min_spaces_inside >= 0 /\ before.spaces < cfg.min_spaces_inside,
                    Violation(line_and_column(line_starts, idx).line,
                              line_and_column(line_starts, idx).column,
                              TOO_FEW_SPACES_INSIDE))]

handle_close(cfg, chars, idx, line_starts, st) ==
    IF st.stack = <<>> THEN [st EXCEPT !.popped = None]
    ELSE IF st.stack[Len(st.stack)].is_empty
    THEN [st EXCEPT !.stack = SubSeq(@, 1, Len(@) - 1),
                    !.popped = Some(st.stack[Len(st.stack)])]
    ELSE close_spacing(cfg, chars, idx, line_starts,
                       [st EXCEPT !.stack = SubSeq(@, 1, Len(@) - 1),
                                  !.popped = Some(st.stack[Len(st.stack)])],
                       compute_spaces_before_close(chars, idx))

\* `state.is_empty = false` on the top of the stack, if there is one.
mark_not_empty(stack) ==
    IF stack = <<>> THEN stack
    ELSE [stack EXCEPT ![Len(stack)] = SequenceState(FALSE)]

\* `while range_idx < scalar_ranges.len() && scalar_ranges[range_idx].end <= idx`
RECURSIVE advance_range(_, _, _)
advance_range(scalar_ranges, range_idx, idx) ==
    IF range_idx < Len(scalar_ranges) /\ At(scalar_ranges, range_idx).end <= idx
    THEN advance_range(scalar_ranges, range_idx + 1, idx)
    ELSE range_idx

\* The body of `while idx < chars.len()` once range_idx is advanced.
scan_char(cfg, chars, scalar_ranges, line_starts, st) ==
    IF /\ st.range_idx < Len(scalar_ranges)
       /\ st.idx >= At(scalar_ranges, st.range_idx).start
       /\ st.idx < At(scalar_ranges, st.range_idx).end
    THEN [st EXCEPT
            !.stack = IF st.idx = At(scalar_ranges, st.range_idx).start
                      THEN mark_not_empty(@) ELSE @,
            !.idx = At(scalar_ranges, st.range_idx).end]
    ELSE IF At(chars, st.idx) = "["
    THEN [handle_open(cfg, chars, st.idx, line_starts,
                      [st EXCEPT !.stack = mark_not_empty(@)])
            EXCEPT !.idx = @ + 1]
    ELSE IF At(chars, st.idx) = "]"
    THEN [handle_close(cfg, chars, st.idx, line_starts, st) EXCEPT !.idx = @ + 1]
    ELSE IF At(chars, st.idx) = "#"
    THEN [st EXCEPT !.idx = skip_comment(chars, st.idx)]
    ELSE IF At(chars, st.idx) \in {",", " ", "\t", "\n"}
    THEN [st EXCEPT !.idx = @ + 1]
    ELSE IF At(chars, st.idx) = "\r"
    THEN [st EXCEPT !.idx = IF st.idx + 1 < Len(chars) /\ At(chars, st.idx + 1) = "\n"
                             THEN @ + 2 ELSE @ + 1]
    ELSE [st EXCEPT !.stack = mark_not_empty(@), !.idx = @ + 1]

(***************************************************************************)
(* Inputs of brackets::check: well-formed flow sequences of up to MaxItems  *)
(* items, each a scalar or a nested flow sequence, with spaces, line        *)
(* breaks and comments after the `[`, a scalar and a comment that contain   *)
(* a bracket, and the sequence at the start of a line or after a key.       *)
(* Each character carries whether the parser's Scalar spans cover it.       *)
(***************************************************************************)
MaxItems == 2

Plain(str) == [k \in 1..Len(str) |-> [ch |-> str[k], scalar |-> FALSE]]
InScalar(str) == [k \in 1..Len(str) |-> [ch |-> str[k], scalar |-> TRUE]]

Pads ==
    {<<>>, Plain(<<" ">>), Plain(<<"\n", " ">>), Plain(<<" ", "#", "]", "\n", " ">>)}
ScalarTexts == {InScalar(<<"a">>), InScalar(<<"'", "[", "'">>)}
InnerSequences ==
    {Plain(<<"[", "]">>),
     Plain(<<"[", " ", "#", "]", "\n", " ", "]">>),
     Plain(<<"[">>) \o InScalar(<<"a">>) \o Plain(<<"]">>)}
Items == ScalarTexts \cup InnerSequences

RECURSIVE ItemLists(_)
ItemLists(n) ==
    IF n = 1 THEN Items
    ELSE {b \o Plain(<<",">>) \o i : b \in ItemLists(n - 1), i \in Items}

BracketBuffers ==
    {k \o Plain(<<"[">>) \o p \o b \o Plain(<<"]", "\n">>) :
        k \in {<<>>, InScalar(<<"k">>) \o Plain(<<":", " ">>)},
        p \in Pads,
        b \in {<<>>} \cup UNION {ItemLists(n) : n \in 1..MaxItems}}

\* The spans of the Scalar events of a buffer: its runs of scalar characters.
RECURSIVE scalar_runs(_, _, _)
scalar_runs(marked, idx, start) ==
    IF idx >= Len(marked)
    THEN IF IsSome(start) THEN <<[start |-> Unwrap(start), end |-> idx]>> ELSE <<>>
    ELSE IF At(marked, idx).scalar
    THEN scalar_runs(marked, idx + 1, IF IsSome(start) THEN start ELSE Some(idx))
    ELSE IF IsSome(start)
    THEN <<[start |-> Unwrap(start), end |-> idx]>> \o scalar_runs(marked, idx + 1, None)
    ELSE scalar_runs(marked, idx + 1, None)

BracketsCalls ==
    {[op |-> "brackets::check",
      chars |-> [k \in 1..Len(b) |-> b[k].ch],
      scalar_ranges |-> scalar_runs(b, 0, None),
      cfg |-> BracketsConfig(f, 0, 0, -1, -1)] :
        b \in BracketBuffers, f \in {"None", "All", "NonEmpty"}}

InitBrackets ==
    /\ pc = "scan"
    /\ call \in BracketsCalls
    /\ ret = [idx |-> 0, range_idx |-> 0, stack |-> <<>>, violations |-> <<>>,
              popped |-> None]

\* One iteration of `while idx < chars.len()`.
ScanChar ==
    /\ pc = "scan"
    /\ call.op = "brackets::check"
    /\ ret.idx < Len(call.chars)
    /\ ret' = scan_char(call.cfg, call.chars, call.scalar_ranges,
                        build_line_starts(call.chars),
                        [ret EXCEPT !.range_idx =
                            advance_range(call.scalar_ranges, @, ret.idx)])
    /\ UNCHANGED <<pc, call>>

\* The loop is over: check returns the violations.
BracketsReturn ==
    /\ pc = "scan"
    /\ call.op = "brackets::check"
    /\ ret.idx >= Len(call.chars)
    /\ pc' = "done"
    /\ UNCHANGED <<call, ret>>

NextBrackets == ScanChar \/ BracketsReturn
SpecBrackets == InitBrackets /\ [][NextBrackets]_vars

\* The buffer, described on its own: which characters are in a scalar, which
\* in a comment, where a character is, and which brackets are real.
InAScalar(i) ==
    \E r \in 1..Len(call.scalar_ranges) :
        call.scalar_ranges[r].start <= i /\ i < call.scalar_ranges[r].end
CommentStartAt(j) == At(call.chars, j) = "#" /\ ~InAScalar(j)
InAComment(i) ==
    \E j \in 0..i :
        /\ CommentStartAt(j)
        /\ \A m \in j..i : At(call.chars, m) # "\n"
IsBracket(i, ch) == At(call.chars, i) = ch /\ ~InAScalar(i) /\ ~InAComment(i)
OpenBrackets == {i \in 0..(Len(call.chars) - 1) : IsBracket(i, "[")}
LineOf(i) == 1 + Cardinality({j \in 0..(i - 1) : At(call.chars, j) = "\n"})
ColumnOf(i) == 1 + Cardinality({j \in 0..(i - 1) : \A m \in j..(i - 1) : At(call.chars, m) # "\n"})
Significant(j) ==
    /\ At(call.chars, j) \notin {" ", "\t", "\n", "\r"}
    /\ ~InAComment(j)
IsEmptySequence(i) ==
    \E j \in (i + 1)..(Len(call.chars) - 1) :
        /\ Significant(j) /\ At(call.chars, j) = "]"
        /\ \A m \in (i + 1)..(j - 1) : ~Significant(m)

\* The number of sequences open before index i.
DepthBefore(i) ==
    Cardinality({j \in 0..(i - 1) : IsBracket(j, "[")})
        - Cardinality({j \in 0..(i - 1) : IsBracket(j, "]")})
\* The `[` that the `]` at index j closes.
MatchingOpen(j) ==
    CHOOSE o \in OpenBrackets : o < j /\ DepthBefore(o) = DepthBefore(j) - 1
                                /\ \A m \in (o + 1)..j : DepthBefore(m) > DepthBefore(o)

Forbidden(i) ==
    \/ call.cfg.forbid = "All"
    \/ call.cfg.forbid = "NonEmpty" /\ ~IsEmptySequence(i)

IsForbiddenFlowSequence(v) == v.message = FORBIDDEN_FLOW_SEQUENCE

\* The violations expected for the forbidden `[`s from index i on, in source
\* order, each at the bracket's line and at its column plus shift.
RECURSIVE ForbiddenFrom(_, _)
ForbiddenFrom(i, shift) ==
    IF i >= Len(call.chars) THEN <<>>
    ELSE IF i \in OpenBrackets /\ Forbidden(i)
    THEN <<Violation(LineOf(i), ColumnOf(i) + shift, FORBIDDEN_FLOW_SEQUENCE)>>
             \o ForbiddenFrom(i + 1, shift)
    ELSE ForbiddenFrom(i + 1, shift)

BracketsChecked == call.op = "brackets::check" /\ pc = "done"

\* The last iteration took a `]`.
ClosedAt ==
    IF /\ call.op = "brackets::check" /\ ret.idx > 0
       /\ IsBracket(ret.idx - 1, "]")
    THEN Some(ret.idx - 1) ELSE None

\* Every `[` outside scalars is paired with its `]` in source order: the
\* stack holds the open sequences, and a `]` pops the state of its `[`,
\* which says whether the sequence is empty.
BracketsPaired ==
    call.op = "brackets::check" =>
        /\ Len(ret.stack) = DepthBefore(ret.idx)
        /\ IsSome(ClosedAt) =>
              ret.popped = Some(SequenceState(IsEmptySequence(MatchingOpen(Unwrap(ClosedAt)))))

\* C22 as stated: every `[` outside a scalar is paired with its `]`, is empty
\* iff the next significant character is `]`, and yields one "forbidden flow
\* sequence" violation at its own line and column with forbid true, only
\* when non-empty with forbid non-empty, and never with forbid false.
C22_ForbiddenFlowSequenceAtBracket ==
    /\ BracketsPaired
    /\ BracketsChecked =>
          SelectSeq(ret.violations, IsForbiddenFlowSequence) = ForbiddenFrom(0, 0)

\* C22, amended: the same, with the violation at the bracket's line and at
\* the column just after the bracket.
C22_ForbiddenFlowSequenceAfterBracket ==
    /\ BracketsPaired
    /\ BracketsChecked =>
          SelectSeq(ret.violations, IsForbiddenFlowSequence) = ForbiddenFrom(0, 1)

\* forbid non-empty over a buffer with an empty sequence whose `]` comes
\* after a comment and a line break, and a non-empty one: one is reported.
C22_Witness ==
    /\ BracketsChecked
    /\ call.cfg.forbid = "NonEmpty"
    /\ \E i \in OpenBrackets :
          /\ IsEmptySequence(i) /\ At(call.chars, i + 1) # "]"
          /\ \E j \in (i + 1)..(Len(call.chars) - 1) : CommentStartAt(j)
    /\ \E i \in OpenBrackets : ~IsEmptySequence(i)
    /\ Len(SelectSeq(ret.violations, IsForbiddenFlowSequence)) >= 1

(***************************************************************************)
(* Inputs of resolve_extend_path and of the read that follows it in         *)
(* extend_from_entry: relative and absolute entries, with and without a     *)
(* base directory, under two current directories and every set of existing  *)
(* files; and documents with an empty extends entry, loaded with and        *)
(* without an environment.                                                  *)
(***************************************************************************)
Cwd == AbsPath(<<"cwd">>)
Base == AbsPath(<<"base">>)
ExtendEntries == {"a.yml", "missing.yml", "/w/a.yml", "."}
ExtendBases == {None, Some(W), Some(Base)}
ExtendFiles ==
    {AbsPath(<<"w", "a.yml">>), AbsPath(<<"base", "a.yml">>), AbsPath(<<"cwd", "a.yml">>)}
ExtendDirs == {W, Base, Cwd}

ExtendEnv(cwd, present) ==
    [cwd |-> cwd, config_dir |-> None,
     files |-> [f \in present |-> Doc(<<>>)],
     exists |-> ExtendDirs, vars |-> EmptyMap, dirs |-> ExtendDirs, home_dir |-> None]

ResolveCalls ==
    {[op |-> "resolve_extend_path", entry |-> e, envx |-> ExtendEnv(c, fs), base_dir |-> b] :
        e \in ExtendEntries, c \in {W, Cwd}, fs \in SUBSET ExtendFiles, b \in ExtendBases}

\* The documents with an empty entry, each with the same document without it.
TruthyRules == <<"rules", Doc(<<<<"truthy", StrN("enable")>>>>)>>
EmptyEntryDocs ==
    {[doc |-> Doc(<<<<"extends", StrN("")>>>>), without |-> Doc(<<>>)],
     [doc |-> Doc(<<<<"extends", StrN("")>>, TruthyRules>>),
      without |-> Doc(<<TruthyRules>>)],
     [doc |-> Doc(<<<<"extends", StrSeq(<<"", "relaxed">>)>>>>),
      without |-> Doc(<<<<"extends", StrSeq(<<"relaxed">>)>>>>)],
     [doc |-> Doc(<<<<"extends", StrSeq(<<"a.yml", "">>)>>, TruthyRules>>),
      without |-> Doc(<<<<"extends", StrSeq(<<"a.yml">>)>>, TruthyRules>>)]}

\* The environments: a file system with its directories, and the tests'
\* stub that holds a file under the empty path.
EmptyEntryEnvs ==
    {None,
     Some(ExtendEnv(W, {AbsPath(<<"w", "a.yml">>)})),
     Some([ExtendEnv(W, {AbsPath(<<"w", "a.yml">>), RelPath(<<>>)}) EXCEPT !.exists = {}])}

EmptyEntryCalls ==
    {[op |-> "from_yaml_str_with_env (empty entry)", doc |-> d.doc, without |-> d.without,
      envx |-> e, base_dir |-> b] :
        d \in EmptyEntryDocs, e \in EmptyEntryEnvs, b \in {None, Some(W)}}

InitExtend ==
    /\ pc = "start"
    /\ call \in ResolveCalls \cup EmptyEntryCalls
    /\ ret = <<>>

\* `let resolved = resolve_extend_path(entry, envx, base_dir);`
ResolveExtendPath ==
    /\ pc = "start"
    /\ call.op = "resolve_extend_path"
    /\ ret' = [resolved |-> resolve_extend_path(call.entry, call.envx, call.base_dir)]
    /\ pc' = "resolved"
    /\ UNCHANGED call

\* `let data = match envx.read_to_string(&resolved) { .. }`
ReadResolved ==
    /\ pc = "resolved"
    /\ ret' = [resolved |-> ret.resolved,
               data |-> read_to_string(call.envx, ret.resolved)]
    /\ pc' = "done"
    /\ UNCHANGED call

\* from_yaml_str_with_env on a document with an empty extends entry.
LoadEmptyEntry ==
    /\ pc = "start"
    /\ call.op = "from_yaml_str_with_env (empty entry)"
    /\ ret' = from_yaml_str_with_env(call.doc, call.envx, call.base_dir, 1)
    /\ pc' = "done"
    /\ UNCHANGED call

NextExtend == ResolveExtendPath \/ ReadResolved \/ LoadEmptyEntry
SpecExtend == InitExtend /\ [][NextExtend]_vars

Resolved == call.op = "resolve_extend_path" /\ pc \in {"resolved", "done"}
EntryPath == PathBuf_from(call.entry)
UnderBase == join(Unwrap(call.base_dir), EntryPath)
UnderCwd == join(current_dir(call.envx), EntryPath)
ExistsUnderBase == IsSome(call.base_dir) /\ path_exists(call.envx, UnderBase)

\* C23: resolve_extend_path returns the entry itself when it is absolute,
\* else base_dir/entry when a base directory is given and that path exists,
\* else cwd/entry when that path exists, else the relative entry unchanged,
\* and then the read that follows fails.
C23_ResolveExtendPathOrder ==
    Resolved =>
        /\ is_absolute(EntryPath) => ret.resolved = EntryPath
        /\ (~is_absolute(EntryPath) /\ ExistsUnderBase) => ret.resolved = UnderBase
        /\ (~is_absolute(EntryPath) /\ ~ExistsUnderBase /\ path_exists(call.envx, UnderCwd))
              => ret.resolved = UnderCwd
        /\ (~is_absolute(EntryPath) /\ ~ExistsUnderBase /\ ~path_exists(call.envx, UnderCwd))
              => /\ ret.resolved = EntryPath
                 /\ pc = "done" => ~ret.data.ok

\* A relative entry that exists under the base directory and under the
\* current directory, which differ, has been resolved and read.
C23_Witness ==
    /\ Resolved /\ pc = "done"
    /\ ~is_absolute(EntryPath)
    /\ ExistsUnderBase /\ path_exists(call.envx, UnderCwd) /\ UnderBase # UnderCwd
    /\ ret.data.ok

\* C24: an empty extends entry is a no-op: the document loads as the same
\* document without the entry does, and successfully, with or without an
\* environment.
C24_EmptyExtendsEntryIsNoOp ==
    (call.op = "from_yaml_str_with_env (empty entry)" /\ pc = "done") =>
        /\ ret.ok
        /\ ret = from_yaml_str_with_env(call.without, call.envx, call.base_dir, 1)

(***************************************************************************)
(* Discovery through SystemEnv, whose current_dir is PathBuf::from("."),    *)
(* and through an environment with an absolute current directory; with      *)
(* every source of configuration, and relative and absolute paths.          *)
(***************************************************************************)
SystemEnv_current_dir == RelPath(<<".">>)

RelConfigFile == RelPath(<<"conf.yml">>)
BaseDirOverrides ==
    {[config_data |-> None, config_file |-> None],
     [config_data |-> Some(InlineData), config_file |-> None],
     [config_data |-> None, config_file |-> Some(ConfigFile)],
     [config_data |-> None, config_file |-> Some(RelConfigFile)]}
BaseDirInputs ==
    {<<>>, <<AbsPath(<<"w", "p", "f.yaml">>)>>, <<RelPath(<<"p", "f.yaml">>)>>,
     <<RelPath(<<"f.yaml">>)>>}

\* The project config of the current directory, as each environment sees it.
BaseDirProject(cwd) == join(cwd, RelPath(<<".yamllint">>))

BaseDirEnvs(cwd) ==
    {[cwd |-> cwd, config_dir |-> cd,
      files |-> (ConfigFile :> Marked("file")) @@ (RelConfigFile :> Marked("file"))
                    @@ fp @@ fe @@ fu,
      exists |-> {},
      vars |-> ("YAMLLINT_CONFIG_FILE" :> ev) @@ ("HOME" :> None),
      dirs |-> {W, P, AbsPath(<<>>), cwd}, home_dir |-> None] :
        cd \in {None, Some(UserDir)},
        fp \in {EmptyMap, BaseDirProject(cwd) :> Marked("project")},
        fe \in {EmptyMap, EnvFile :> Marked("env")},
        fu \in {EmptyMap, UserFile :> Marked("user")},
        ev \in {None, Some("/e/env.yml")}}

BaseDirCalls ==
    {[op |-> "discover_config", inputs |-> i, overrides |-> o, envx |-> e] :
        i \in BaseDirInputs, o \in BaseDirOverrides, e \in BaseDirEnvs(SystemEnv_current_dir)}
    \cup
    {[op |-> "discover_config_with", inputs |-> i, overrides |-> o, envx |-> e] :
        i \in BaseDirInputs, o \in BaseDirOverrides, e \in BaseDirEnvs(W)}
    \cup
    {[op |-> "discover_per_file_with", path |-> i[1], envx |-> e] :
        i \in BaseDirInputs \ {<<>>},
        e \in BaseDirEnvs(SystemEnv_current_dir) \cup BaseDirEnvs(W)}

InitBaseDir == pc = "start" /\ call \in BaseDirCalls /\ ret = <<>>

\* discover_config: discover_config_with under SystemEnv.
DiscoverConfig ==
    /\ pc = "start"
    /\ call.op = "discover_config"
    /\ ret' = discover_config_with(call.inputs, call.overrides, call.envx)
    /\ pc' = "done"
    /\ UNCHANGED call

DiscoverConfigWith ==
    /\ pc = "start"
    /\ call.op = "discover_config_with"
    /\ ret' = discover_config_with(call.inputs, call.overrides, call.envx)
    /\ pc' = "done"
    /\ UNCHANGED call

DiscoverPerFileWith ==
    /\ pc = "start"
    /\ call.op = "discover_per_file_with"
    /\ ret' = discover_per_file_with(call.path, call.envx)
    /\ pc' = "done"
    /\ UNCHANGED call

NextBaseDir == DiscoverConfig \/ DiscoverConfigWith \/ DiscoverPerFileWith
SpecBaseDir == InitBaseDir /\ [][NextBaseDir]_vars

\* C25: every ConfigContext that discovery returns has an absolute base_dir,
\* whatever the source of the configuration, also for relative paths and
\* under the system environment's current directory.
C25_DiscoveredBaseDirAbsolute ==
    (/\ call.op \in {"discover_config", "discover_config_with", "discover_per_file_with"}
     /\ pc = "done" /\ ret.ok)
        => is_absolute(ret.ctx.base_dir)

(***************************************************************************)
(* Explicit files and the yaml-files filter (main 131-167).                *)
(***************************************************************************)

\* The config main resolves for a file: the global one, else the file's own.
ResolvedFor(f) == resolve_ctx(f, GlobalCfg, call.world.envx)

\* An input that names a file and is not ignored by its resolved config.
ExplicitNotIgnored(f) ==
    /\ ~is_dir(call.world.envx, f)
    /\ ResolvedFor(f).ok
    /\ ~is_file_ignored(ResolvedFor(f).ctx.config, f, ResolvedFor(f).ctx.base_dir)

\* C27: a file named explicitly on the command line is a lint candidate as-is,
\* whatever its name: in a --list-files run that ends with code 0, every
\* explicit input that its config does not ignore is listed, n.txt included
\* (the yaml-files filter applies to walked files only).
C27_ExplicitFileTakenAsIs ==
    (Exited /\ call.cli.list_files /\ ret.exit = Some(0))
        => \A k \in 1..Len(call.cli.inputs) :
              ExplicitNotIgnored(call.cli.inputs[k])
                  => call.cli.inputs[k] \in Range(ret.stdout)

(***************************************************************************)
(* main under YAMLLINT_CONFIG_FILE (main 41-64, config.rs 1026-1038): the  *)
(* variable names /e/env.yml, which is there or not and ignores *.yaml or  *)
(* nothing; /w holds a project config that ignores nothing, or none.       *)
(***************************************************************************)
EnvIgnoreDoc == Doc(<<<<"ignore", StrN("*.yaml")>>, WarnRules>>)

CliEnvFiles == {EmptyMap, EnvFile :> EnvIgnoreDoc, EnvFile :> WarnDoc}
CliEnvProjects == {EmptyMap, Project2 :> WarnDoc}

CliEnvCalls ==
    {[op |-> "main",
      cli |-> [inputs |-> i, config_file |-> None, config_data |-> None,
               list_files |-> fl.list_files, strict |-> fl.strict,
               no_warnings |-> fl.no_warnings],
      world |-> [envx |-> [cwd |-> W, config_dir |-> None, files |-> pf @@ ef,
                           exists |-> {},
                           vars |-> ("YAMLLINT_CONFIG_FILE" :> Some("/e/env.yml")),
                           dirs |-> {W, CliD, Root}, home_dir |-> None],
                 walk |-> (CliD :> <<CliDG, CliDN>>),
                 fs |-> CliFs(CliF :> [hits |-> TruthyHit, syntax |-> None])]] :
        i \in CliInputs, fl \in CliFlags, pf \in CliEnvProjects, ef \in CliEnvFiles}

InitCliEnv == pc = "start" /\ call \in CliEnvCalls /\ ret = main_state

SpecCliEnv == InitCliEnv /\ [][NextCli]_vars

\* What loading the file named by YAMLLINT_CONFIG_FILE gives.
EnvConfigPath == PathBuf_from(Unwrap(env_var(call.world.envx, "YAMLLINT_CONFIG_FILE")))
EnvConfigCtx == ctx_from_config_path_core(call.world.envx, EnvConfigPath)

\* YAMLLINT_CONFIG_FILE names an existing config file that loads, and no
\* config is given on the command line.
EnvConfigNamed ==
    /\ ~IsSome(call.cli.config_data)
    /\ ~IsSome(call.cli.config_file)
    /\ IsSome(env_var(call.world.envx, "YAMLLINT_CONFIG_FILE"))
    /\ path_exists(call.world.envx, EnvConfigPath)
    /\ EnvConfigCtx.ok

IgnoredByEnvConfig(f) ==
    is_file_ignored(EnvConfigCtx.ctx.config, f, EnvConfigCtx.ctx.base_dir)

\* C26: when YAMLLINT_CONFIG_FILE names an existing config file, that file is
\* the global config of the run, also when the inputs' directory tree holds a
\* project config: in a --list-files run that ends with code 0 the global
\* config is the one loaded from the env file, and no file its ignore patterns
\* match is listed, whether it was found by walking a directory or named
\* explicitly.
C26_EnvConfigOverridesProject ==
    (Exited /\ EnvConfigNamed /\ call.cli.list_files /\ ret.exit = Some(0))
        => /\ ret.global_cfg = EnvConfigCtx
           /\ \A k \in 1..Len(ret.stdout) : ~IgnoredByEnvConfig(ret.stdout[k])

(***************************************************************************)
(* The ignore lists along an extends chain (config.rs 234-241, 297-300).   *)
(***************************************************************************)

\* The document's extends alone: what the extended documents contribute.
ExtendsOnlyDoc ==
    IF IsSome(as_mapping_get(call.doc, "extends"))
    THEN Doc(<<<<"extends", Unwrap(as_mapping_get(call.doc, "extends"))>>>>)
    ELSE Doc(<<>>)
InheritedIgnores == from_yaml_str_with_env(ExtendsOnlyDoc, call.envx, call.base_dir, 1).cfg

\* The current document's own `ignore` patterns and `ignore-from-file` entries.
OwnIgnorePatterns ==
    IF IsSome(as_mapping_get(call.doc, "ignore"))
    THEN load_ignore_patterns(Unwrap(as_mapping_get(call.doc, "ignore"))).val
    ELSE <<>>
OwnIgnoreFromFiles ==
    IF IsSome(as_mapping_get(call.doc, "ignore-from-file"))
    THEN load_ignore_from_files(Unwrap(as_mapping_get(call.doc, "ignore-from-file"))).val
    ELSE <<>>

\* C28: after a load that succeeds, the ignore patterns and the
\* ignore-from-file entries contributed by the extended documents are all
\* still present, unchanged and in order, followed by the current document's
\* own contribution: a document that sets `ignore` or `ignore-from-file` adds
\* to the inherited entries.
C28_IgnoreAccumulatesAlongExtends ==
    (LoadedOk /\ is_mapping(call.doc)) =>
        /\ ret.cfg.ignore_patterns = InheritedIgnores.ignore_patterns \o OwnIgnorePatterns
        /\ ret.cfg.ignore_from_files = InheritedIgnores.ignore_from_files \o OwnIgnoreFromFiles

====
